---- MODULE Spec2Model ----
(***************************************************************************)
(* LSP client of the fresh editor.                                         *)
(*                                                                         *)
(*   - LspTask / LspHandle   (src/src/lsp_async.rs)   : one session task   *)
(*     per spawned server, its command queue, the child's stdin/stdout.    *)
(*   - LspManager            (src/src/lsp_manager.rs) : registry of        *)
(*     handles per language, get_or_spawn.                                 *)
(*   - AsyncBridge           (src/src/async_bridge.rs): channel from the   *)
(*     session tasks to the main loop.                                     *)
(*   - Editor                (crates/fresh-editor/src/app/lsp_actions.rs): *)
(*     toggle / restart handlers of the editor thread.                     *)
(*                                                                         *)
(* SpecTask runs manager, handle and task of src/src from construction.    *)
(* Spec runs the editor handlers of lsp_actions.rs over sessions whose     *)
(* commands are served by the same task code.  SpecSession drives one      *)
(* Ready session through its handle with arbitrary document commands.     *)
(***************************************************************************)
EXTENDS Integers, Sequences, FiniteSets, TLC

\* ---------------------------------------------------------------- bounds
MaxSessions == 2
MaxTokens == 3
MaxEdits == 1
MaxToggles == 3
MaxCalls == 4
MaxRequests == 3
MaxMessages == 4
MaxTextLen == 4
MaxFoldLine == 2
MaxRanges == 2
MaxErrors == 1
MaxDiagnostics == 2
MaxIgnored == 1

\* ------------------------------------------------------ program constants
\* mpsc::channel(100): capacity of a handle's command queue
ChannelCapacity == 100

Langs == {"rust", "python"}
Sessions == 1..MaxSessions
NoSession == 0

\* Files of the open buffers (canonical paths; their URIs are file URIs).
Paths == {"a.rs", "b.rs"}
Chars == {"x"}

VARIABLES
    task,        \* [Sessions -> LspTask fields + position in run()]
    command_rx,  \* [Sessions -> Seq(LspCommand)]: the handle's mpsc queue
    stdin,       \* [Sessions -> Seq(frame)]: frames written to the child
    stdout,      \* [Sessions -> [buf, eof, wpos]]: child's output pipe
    process,     \* [Sessions -> "none" | "running" | "gone"]: the child
    handle,      \* [Sessions -> [initialized, live]]: LspHandle
    handles,     \* [Langs -> Sessions \cup {NoSession}]: LspManager.handles
    config,      \* [lsp: [Langs -> LspServerConfig], enable_inlay_hints]
    bridge,      \* Seq(AsyncMessage): everything sent into the AsyncBridge
    ed,          \* editor / main thread: position and locals
    buffers,     \* [Paths -> [open, text, lsp_enabled, lsp_opened_with,
                 \*            folding_ranges, folds, marker_list]]
    counters     \* bookkeeping of the bounded run

vars == <<task, command_rx, stdin, stdout, process, handle, handles, config,
          bridge, ed, buffers, counters>>

\* ------------------------------------------------------------ data shapes
\* JsonRpcRequest / JsonRpcNotification as written by write_message
RequestFrame(id, method) ==
    [kind |-> "request", method |-> method, id |-> id,
     uri |-> "", version |-> 0, text |-> <<>>]

NotificationFrame(method, uri, version, text) ==
    [kind |-> "notification", method |-> method, id |-> -1,
     uri |-> uri, version |-> version, text |-> text]

\* `version as i32` of an i64 version: wraps above i32::MAX
AsI32(v) == IF v > 2147483647 THEN (v - 2147483647) - 2147483647 - 2 ELSE v

\* LspCommand
CmdInitialize == [cmd |-> "Initialize"]
CmdShutdown == [cmd |-> "Shutdown"]
CmdDidOpen(uri, text, language_id) ==
    [cmd |-> "DidOpen", uri |-> uri, text |-> text, language_id |-> language_id]
CmdDidClose(uri) == [cmd |-> "DidClose", uri |-> uri]
CmdDocumentDiagnostic(request_id, uri) ==
    [cmd |-> "DocumentDiagnostic", request_id |-> request_id, uri |-> uri]
CmdInlayHints(request_id, uri) ==
    [cmd |-> "InlayHints", request_id |-> request_id, uri |-> uri]
CmdDidChange(uri, content_changes) ==
    [cmd |-> "DidChange", uri |-> uri, content_changes |-> content_changes]

\* AsyncMessage
LspInitialized(language) == [msg |-> "LspInitialized", language |-> language, uri |-> ""]
LspError(language) == [msg |-> "LspError", language |-> language, uri |-> ""]
LspDiagnostics(uri, diagnostics) ==
    [msg |-> "LspDiagnostics", language |-> "", uri |-> uri,
     diagnostics |-> diagnostics]
FileChanged(path) == [msg |-> "FileChanged", language |-> "", uri |-> path]

\* Url::to_file_path: every URI of the model is a file URI of a path in Paths
IsFilePath(uri) == uri \in Paths

\* ------------------------------------------------------------------ Init
\* LspTask::spawn's field values; pc "unspawned" marks a session id not in use
FreshTask(language) ==
    [pc |-> "unspawned", language |-> language, next_id |-> 0, pending |-> {},
     capabilities |-> FALSE, document_versions |-> [q \in {} |-> 0], initialized |-> FALSE,
     content_length |-> "None", line |-> "", body |-> FALSE,
     awaiting |-> -1]

FreshStdout == [buf |-> <<>>, eof |-> FALSE, wpos |-> "start"]

\* The pipe of a task that has ended: the reader half is dropped
ClosedStdout == [buf |-> <<>>, eof |-> TRUE, wpos |-> "start"]

IdleEd == [pc |-> "idle", language |-> "", sid |-> NoSession, reply |-> "none",
           ret |-> NoSession, buf |-> "", sent |-> FALSE, last |-> "none",
           next_lsp_request_id |-> 0, folding_ranges_debounce |-> {},
           messages |-> <<>>, returned |-> <<>>, line |-> 0,
           stored_diagnostics |-> {}, diagnostic_result_ids |-> {},
           stored_folding_ranges |-> {}, folding_ranges_in_flight |-> {},
           pending_folding_range_requests |-> {},
           frames_written |-> <<>>, frames_read |-> <<>>]

\* A language without an entry in the configuration
NotConfigured == [present |-> FALSE, enabled |-> TRUE, auto_start |-> TRUE]

\* An entry that is enabled and starts its server automatically
AutoStarted == [present |-> TRUE, enabled |-> TRUE, auto_start |-> TRUE]

ConfigChoices ==
    { [present |-> FALSE, enabled |-> TRUE, auto_start |-> TRUE],
      [present |-> TRUE, enabled |-> TRUE, auto_start |-> TRUE],
      [present |-> TRUE, enabled |-> TRUE, auto_start |-> FALSE],
      [present |-> TRUE, enabled |-> FALSE, auto_start |-> TRUE] }

InitCommon ==
    /\ task = [s \in Sessions |-> FreshTask("")]
    /\ command_rx = [s \in Sessions |-> <<>>]
    /\ stdin = [s \in Sessions |-> <<>>]
    /\ stdout = [s \in Sessions |-> FreshStdout]
    /\ process = [s \in Sessions |-> "none"]
    /\ handle = [s \in Sessions |-> [initialized |-> FALSE, live |-> FALSE]]
    /\ handles = [l \in Langs |-> NoSession]
    /\ config \in [lsp : [Langs -> ConfigChoices], enable_inlay_hints : BOOLEAN]
    /\ bridge = <<>>
    /\ ed = IdleEd
    /\ buffers = [p \in Paths |->
                    [open |-> FALSE, text |-> <<>>, lsp_enabled |-> TRUE,
                     lsp_opened_with |-> {}, folding_ranges |-> {},
                     folds |-> <<>>, marker_list |-> {}]]
    /\ counters = [edits |-> 0, toggles |-> 0, tokens |-> 0, calls |-> 0,
                  errors |-> 0, ignored |-> 0]

\* ------------------------------------------------------- session task I/O
\* write_message: write_all + flush on the child's stdin succeed while the
\* child runs and fail (broken pipe) once it is gone
CanWrite(s) == process[s] = "running"

\* HashMap::insert on document_versions
Insert(dv, path, version) ==
    [q \in (DOMAIN dv) \cup {path} |-> IF q = path THEN version ELSE dv[q]]

\* HashMap::remove on document_versions
Remove(dv, path) == [q \in (DOMAIN dv) \ {path} |-> dv[q]]

\* A handler's outcome: the task fields after it and the frames it wrote
Outcome(t, out) == [task |-> t, out |-> out]

\* Variant of handle_did_open: a DidOpen for a path that has a table entry
\* is dropped
handle_did_open_once(t, ok, uri, text, language_id) ==
    IF ~t.initialized \/ uri \in DOMAIN t.document_versions
    THEN Outcome(t, <<>>)
    ELSE Outcome([t EXCEPT !.document_versions = Insert(@, uri, 1)],
                 IF ok
                 THEN <<NotificationFrame("textDocument/didOpen", uri, 1, text)>>
                 ELSE <<>>)

\* LspTask::handle_did_open; ok: whether write_message succeeds
handle_did_open(t, ok, uri, text, language_id) ==
    IF ~t.initialized
    THEN Outcome(t, <<>>)
    ELSE LET version == 1
             t1 == IF IsFilePath(uri)
                   THEN [t EXCEPT !.document_versions = Insert(@, uri, version)]
                   ELSE t
         IN Outcome(t1, IF ok
                        THEN <<NotificationFrame("textDocument/didOpen", uri,
                                                 AsI32(version), text)>>
                        ELSE <<>>)

\* Variant of handle_did_change: the version of an existing entry is sent
\* again instead of the next one
handle_did_change_same_version(t, ok, uri, content_changes) ==
    IF ~t.initialized
    THEN Outcome(t, <<>>)
    ELSE LET v == IF IsFilePath(uri) /\ uri \in DOMAIN t.document_versions
                  THEN t.document_versions[uri]
                  ELSE 1
             t1 == IF IsFilePath(uri)
                   THEN [t EXCEPT !.document_versions = Insert(@, uri, v)]
                   ELSE t
         IN Outcome(t1, IF ok
                        THEN <<NotificationFrame("textDocument/didChange", uri,
                                                 AsI32(v), content_changes)>>
                        ELSE <<>>)

\* LspTask::handle_did_change
handle_did_change(t, ok, uri, content_changes) ==
    IF ~t.initialized
    THEN Outcome(t, <<>>)
    ELSE LET v == IF IsFilePath(uri)
                  THEN (IF uri \in DOMAIN t.document_versions
                        THEN t.document_versions[uri] ELSE 0) + 1
                  ELSE 1
             t1 == IF IsFilePath(uri)
                   THEN [t EXCEPT !.document_versions = Insert(@, uri, v)]
                   ELSE t
         IN Outcome(t1, IF ok
                        THEN <<NotificationFrame("textDocument/didChange", uri,
                                                 AsI32(v), content_changes)>>
                        ELSE <<>>)

\* Variant of send_request: the id counter is left where it is
send_request_without_increment(t, ok, method) ==
    LET id == t.next_id
        t1 == [t EXCEPT !.pending = @ \cup {id}]
    IN IF ok
       THEN Outcome([t1 EXCEPT !.pc = "await_reply", !.awaiting = id],
                    <<RequestFrame(id, method)>>)
       ELSE Outcome(t1, <<>>)

\* LspTask::send_request up to its `rx.await`: allocate the id, register the
\* ledger entry, write the frame.  When the write fails the `?` returns Err
\* and the entry stays in `pending`.
send_request(t, ok, method) ==
    LET id == t.next_id
        t1 == [t EXCEPT !.next_id = id + 1, !.pending = @ \cup {id}]
    IN IF ok
       THEN Outcome([t1 EXCEPT !.pc = "await_reply", !.awaiting = id],
                    <<RequestFrame(id, method)>>)
       ELSE Outcome(t1, <<>>)

\* The run loop ended (break): the task value is dropped, with its ledger,
\* its reader state, the command receiver and the kill_on_drop child.
Exited(t) ==
    [t EXCEPT !.pc = "exited", !.pending = {}, !.content_length = "None",
              !.line = "", !.body = FALSE, !.awaiting = -1]

\* The oneshot of a queued Initialize is dropped with the queue
ReplyDropped(s) ==
    IF ed.sid = s /\ ed.pc = "init_recv" /\ ed.reply = "waiting"
    THEN [ed EXCEPT !.reply = "closed"]
    ELSE ed

TaskExits(s, t) ==
    /\ task' = [task EXCEPT ![s] = Exited(t)]
    /\ command_rx' = [command_rx EXCEPT ![s] = <<>>]
    /\ process' = [process EXCEPT ![s] = IF @ = "running" THEN "gone" ELSE @]
    /\ stdout' = [stdout EXCEPT ![s] = ClosedStdout]
    /\ ed' = ReplyDropped(s)

\* A new read_message future: its locals start empty
ReaderReset(t) == [t EXCEPT !.content_length = "None", !.line = "", !.body = FALSE]

\* ----------------------------------------------------------- server side
\* What the child has written to its stdout arrives as a stream of pieces:
\* a "Content-Length: n\r\n" line (CL), the blank "\r\n" line, a body of n
\* bytes.  wpos is the child's position in the frame it is writing.
ServerBodies(s) ==
    { [t |-> "body", kind |-> "response", id |-> f.id, outcome |-> "result",
       method |-> "", uri |-> ""] :
          f \in { stdin[s][i] : i \in { j \in 1..Len(stdin[s]) :
                                          stdin[s][j].kind = "request" } } }
    \cup { [t |-> "body", kind |-> "notification", id |-> -1, outcome |-> "ok",
            method |-> "textDocument/publishDiagnostics", uri |-> "a.rs",
            diagnostics |-> <<>>] }

NextTokens(s) ==
    CASE stdout[s].wpos = "start" ->
            { [t |-> "CL", wpos |-> "cl"], [t |-> "blank", wpos |-> "start"] }
      [] stdout[s].wpos = "cl" -> { [t |-> "blank", wpos |-> "blank"] }
      [] OTHER -> { m @@ [wpos |-> "start"] : m \in ServerBodies(s) }

PipeOpen(s) ==
    /\ process[s] = "running"
    /\ task[s].pc \in {"select", "await_reply"}
    /\ ~stdout[s].eof

\* The child writes the next piece of a frame
ServerWrite(s) ==
    /\ PipeOpen(s)
    /\ counters.tokens < MaxTokens
    /\ \E tok \in NextTokens(s) :
          stdout' = [stdout EXCEPT ![s].buf = Append(@, tok),
                                   ![s].wpos = tok.wpos]
    /\ counters' = [counters EXCEPT !.tokens = @ + 1]
    /\ UNCHANGED <<task, command_rx, stdin, process, handle, handles, config,
                   bridge, ed, buffers>>

\* The child closes its stdout (end of stream), at any point of a frame
ServerCloseStdout(s) ==
    /\ PipeOpen(s)
    /\ stdout' = [stdout EXCEPT ![s].eof = TRUE]
    /\ UNCHANGED <<task, command_rx, stdin, process, handle, handles, config,
                   bridge, ed, buffers, counters>>

\* The child exits on its own: end of stream, and writes to its stdin fail
ServerExit(s) ==
    /\ PipeOpen(s)
    /\ stdout' = [stdout EXCEPT ![s].eof = TRUE]
    /\ process' = [process EXCEPT ![s] = "gone"]
    /\ UNCHANGED <<task, command_rx, stdin, handle, handles, config,
                   bridge, ed, buffers, counters>>

\* Variant of the task start: a child that cannot be started ends the
\* task without a word to the bridge
TaskSpawn_silent(s) ==
    /\ task[s].pc = "starting"
    /\ \E started \in BOOLEAN :
          IF started
          THEN /\ task' = [task EXCEPT ![s].pc = "select"]
               /\ process' = [process EXCEPT ![s] = "running"]
               /\ UNCHANGED <<command_rx, stdout, ed, bridge>>
          ELSE /\ TaskExits(s, task[s])
               /\ UNCHANGED bridge
    /\ UNCHANGED <<stdin, handle, handles, config, buffers, counters>>

\* ------------------------------------------------------------- LspTask
\* LspTask::spawn inside the task that LspHandle::spawn started: the child
\* process starts, or it does not and the task ends with an LspError
TaskSpawn(s) ==
    /\ task[s].pc = "starting"
    /\ \E started \in BOOLEAN :
          IF started
          THEN /\ task' = [task EXCEPT ![s].pc = "select"]
               /\ process' = [process EXCEPT ![s] = "running"]
               /\ UNCHANGED <<command_rx, stdout, ed, bridge>>
          ELSE /\ TaskExits(s, task[s])
               /\ bridge' = Append(bridge, LspError(task[s].language))
    /\ UNCHANGED <<stdin, handle, handles, config, buffers, counters>>

\* The texts a server may write for the uri of a file: the normalised URI
\* of each path, and for b.rs a text with a dot segment as well
RawUris == Paths \cup {"./b.rs"}

\* Url::parse followed by Url::to_string: the normalised text of a URI
UrlToString(raw) == IF raw = "./b.rs" THEN "b.rs" ELSE raw

\* Variant of handle_notification: the diagnostics of the notification are
\* not passed on
handle_notification_empty_list(t, m) ==
    IF m.method = "textDocument/publishDiagnostics" /\ m.outcome = "ok"
    THEN <<LspDiagnostics(UrlToString(m.uri), <<>>)>>
    ELSE <<>>

\* Variant of handle_notification: every notification is passed on to the
\* bridge
handle_notification_forwards_all(t, m) ==
    <<LspDiagnostics(m.uri, <<>>)>>

\* LspTask::handle_notification: the bridge messages it sends.  m.outcome
\* is "ok" for params that deserialize as the method's params; without
\* params, or with params that do not deserialize, nothing is sent.
handle_notification(t, m) ==
    IF m.method = "textDocument/publishDiagnostics" /\ m.outcome = "ok"
    THEN <<LspDiagnostics(UrlToString(m.uri), m.diagnostics)>>
    ELSE <<>>

\* handle_message with a response that empties the ledger
handle_message_clears_ledger(t, m) ==
    CASE m.kind = "response" ->
            [task |-> [t EXCEPT !.pending = {}], sent |-> <<>>]
      [] m.kind = "notification" ->
            [task |-> t, sent |-> handle_notification(t, m)]
      [] OTHER -> [task |-> t, sent |-> <<>>]

\* handle_message that takes an error response for no response at all
handle_message_drops_error(t, m) ==
    CASE m.kind = "response" /\ m.outcome # "error" ->
            [task |-> [t EXCEPT !.pending = @ \ {m.id}], sent |-> <<>>,
             resolved |-> IF m.id \in t.pending
                          THEN <<[id |-> m.id, result |-> "Ok"]>>
                          ELSE <<>>]
      [] m.kind = "notification" ->
            [task |-> t, sent |-> handle_notification(t, m), resolved |-> <<>>]
      [] OTHER -> [task |-> t, sent |-> <<>>, resolved |-> <<>>]

\* LspTask::handle_message: the task fields and the bridge messages after
\* it, and what it sent through the oneshot of the ledger entry it took
\* out (Err for a response that carries an error object)
handle_message(t, m) ==
    CASE m.kind = "response" ->
            [task |-> [t EXCEPT !.pending = @ \ {m.id}], sent |-> <<>>,
             resolved |-> IF m.id \in t.pending
                          THEN <<[id |-> m.id,
                                  result |-> IF m.outcome = "error"
                                             THEN "Err" ELSE "Ok"]>>
                          ELSE <<>>]
      [] m.kind = "notification" ->
            [task |-> t, sent |-> handle_notification(t, m), resolved |-> <<>>]
      [] OTHER -> [task |-> t, sent |-> <<>>, resolved |-> <<>>]

\* Bodies read_message cannot turn into a message: bytes that are not
\* UTF-8, and text that is no JSON-RPC request, response or notification
BadBodyKinds == {"invalid_utf8", "not_jsonrpc"}

\* One step of LspTask::read_message inside the select! of run(): the next
\* piece of the stream is consumed.  r.err: read_message returned Err;
\* r.msg: it returned Ok(message); otherwise it is still reading.
read_message(t, buf, eof) ==
    LET more == [task |-> t, err |-> FALSE, msg |-> <<>>]
    IN IF ~t.body
       THEN IF buf = <<>>
            THEN \* read_line at end of stream returns what it holds
                 [more EXCEPT !.task.line = ""]
            ELSE LET hd == Head(buf)
                 IN CASE hd.t = "body" ->
                           \* bytes without a line end: read_line keeps them
                           [more EXCEPT !.task.line = "partial"]
                      [] t.line = "partial" ->
                           \* neither "\r\n" nor a Content-Length line
                           [more EXCEPT !.task.line = ""]
                      [] hd.t = "CL" ->
                           [more EXCEPT !.task.content_length = "Some"]
                      [] hd.t = "badCL" ->
                           \* "Content-Length: " and no number: parse fails
                           [more EXCEPT !.err = TRUE]
                      [] hd.t = "header" ->
                           \* another header line: neither test matches
                           more
                      [] OTHER ->
                           IF t.content_length = "None"
                           THEN [more EXCEPT !.err = TRUE]
                           ELSE [more EXCEPT !.task.body = TRUE]
       ELSE IF buf = <<>> \/ Head(buf).t # "body"
            THEN [more EXCEPT !.err = TRUE]
            ELSE IF Head(buf).kind \in BadBodyKinds
            THEN \* from_utf8 or serde_json::from_str fails
                 [more EXCEPT !.err = TRUE]
            ELSE [more EXCEPT !.msg = <<Head(buf)>>]

\* Whether read_message can take a step: a piece is there, or the stream
\* ended inside a body (read_exact fails) or inside a line.  At end of
\* stream between lines read_line returns Ok(0), the line is neither
\* "\r\n" nor a header, and the header loop reads again: no step.
CanRead(s) ==
    \/ stdout[s].buf # <<>>
    \/ /\ stdout[s].eof
       /\ (task[s].body \/ task[s].line = "partial")

\* Variant of the read arm: after a failed read the loop goes on with a
\* new read_message
TaskRead_retries(s) ==
    /\ task[s].pc = "select"
    /\ CanRead(s)
    /\ LET r == read_message(task[s], stdout[s].buf, stdout[s].eof)
           rest == IF stdout[s].buf = <<>> THEN <<>> ELSE Tail(stdout[s].buf)
       IN /\ stdout' = [stdout EXCEPT ![s].buf = rest]
          /\ IF r.err
             THEN /\ task' = [task EXCEPT ![s] = ReaderReset(task[s])]
                  /\ bridge' = Append(bridge, LspError(task[s].language))
             ELSE IF r.msg = <<>>
                  THEN /\ task' = [task EXCEPT ![s] = r.task]
                       /\ UNCHANGED bridge
                  ELSE LET h == handle_message(ReaderReset(task[s]), r.msg[1])
                       IN /\ task' = [task EXCEPT ![s] = h.task]
                          /\ bridge' = bridge \o h.sent
          /\ UNCHANGED <<command_rx, process, ed>>
    /\ UNCHANGED <<stdin, handle, handles, config, buffers, counters>>

\* The read_message arm of the select! in LspTask::run
TaskRead(s) ==
    /\ task[s].pc = "select"
    /\ CanRead(s)
    /\ LET r == read_message(task[s], stdout[s].buf, stdout[s].eof)
           rest == IF stdout[s].buf = <<>> THEN <<>> ELSE Tail(stdout[s].buf)
       IN IF r.err
          THEN /\ TaskExits(s, task[s])
               /\ bridge' = Append(bridge, LspError(task[s].language))
          ELSE /\ stdout' = [stdout EXCEPT ![s].buf = rest]
               /\ IF r.msg = <<>>
                  THEN /\ task' = [task EXCEPT ![s] = r.task]
                       /\ UNCHANGED bridge
                  ELSE LET h == handle_message(ReaderReset(task[s]), r.msg[1])
                       IN /\ task' = [task EXCEPT ![s] = h.task]
                          /\ bridge' = bridge \o h.sent
               /\ UNCHANGED <<command_rx, process, ed>>
    /\ UNCHANGED <<stdin, handle, handles, config, buffers, counters>>

\* DidClose of the session (its code is not among the sources): checks
\* initialized like the other document commands, removes the table entry
\* unconditionally, writes the didClose frame
handle_did_close(t, ok, uri) ==
    IF ~t.initialized
    THEN Outcome(t, <<>>)
    ELSE LET t1 == IF IsFilePath(uri)
                   THEN [t EXCEPT !.document_versions = Remove(@, uri)]
                   ELSE t
         IN Outcome(t1, IF ok
                        THEN <<NotificationFrame("textDocument/didClose", uri, 0, <<>>)>>
                        ELSE <<>>)

\* DocumentDiagnostic / InlayHints of the session (their code is not among
\* the sources): allocates a request id, registers the ledger entry, writes
\* the frame and does not await the reply
handle_document_request(t, ok, method, request_id, uri) ==
    IF ~t.initialized
    THEN Outcome(t, <<>>)
    ELSE LET id == t.next_id
             t1 == [t EXCEPT !.next_id = id + 1, !.pending = @ \cup {id}]
         IN Outcome(t1, IF ok
                        THEN <<[RequestFrame(id, method) EXCEPT !.uri = uri]>>
                        ELSE <<>>)

\* LspTask::handle_initialize.  Its send_request awaits the reply inside the
\* select! arm that dequeued the command, where nothing polls read_message
\* and so nothing calls handle_message: lines 258-273 (capabilities, the
\* `initialized` notification, initialized = true, LspInitialized, Ok) come
\* after that await.
handle_initialize(t, ok) ==
    LET r == send_request(t, ok, "initialize")
    IN [task |-> r.task, out |-> r.out, brk |-> FALSE,
        reply |-> IF ok THEN "none" ELSE "err"]

\* LspTask::handle_shutdown followed by the `break` of run(); with the
\* `shutdown` request written the task awaits its reply as above
handle_shutdown(t, ok) ==
    IF ~t.initialized
    THEN [task |-> t, out |-> <<>>, brk |-> TRUE, reply |-> "none"]
    ELSE LET r == send_request(t, ok, "shutdown")
         IN [task |-> r.task, out |-> r.out, brk |-> ~ok, reply |-> "none"]

\* The match on the dequeued command in LspTask::run
RunCommand(t, ok, c) ==
    LET plain(r) == [task |-> r.task, out |-> r.out, brk |-> FALSE, reply |-> "none"]
    IN CASE c.cmd = "Initialize" -> handle_initialize(t, ok)
         [] c.cmd = "DidOpen" ->
               plain(handle_did_open(t, ok, c.uri, c.text, c.language_id))
         [] c.cmd = "DidChange" ->
               plain(handle_did_change(t, ok, c.uri, c.content_changes))
         [] c.cmd = "DidClose" -> plain(handle_did_close(t, ok, c.uri))
         [] c.cmd = "DocumentDiagnostic" ->
               plain(handle_document_request(t, ok, "textDocument/diagnostic",
                                             c.request_id, c.uri))
         [] c.cmd = "InlayHints" ->
               plain(handle_document_request(t, ok, "textDocument/inlayHint",
                                             c.request_id, c.uri))
         [] OTHER -> handle_shutdown(t, ok)

\* The command arm of the select! in LspTask::run.  Taking it drops the
\* read_message future of this iteration with its locals.
TaskRecvCommand(s) ==
    /\ task[s].pc = "select"
    /\ command_rx[s] # <<>>
    /\ LET c == Head(command_rx[s])
           r == RunCommand(ReaderReset(task[s]), CanWrite(s), c)
       IN /\ stdin' = [stdin EXCEPT ![s] = @ \o r.out]
          /\ IF r.brk
             THEN TaskExits(s, r.task)
             ELSE /\ task' = [task EXCEPT ![s] = r.task]
                  /\ command_rx' = [command_rx EXCEPT ![s] = Tail(@)]
                  /\ ed' = IF r.reply = "none" THEN ed
                           ELSE [ed EXCEPT !.reply = r.reply]
                  /\ UNCHANGED <<process, stdout>>
    /\ UNCHANGED <<handle, handles, config, bridge, buffers, counters>>

\* ------------------------------------------------------------ LspHandle
\* blocking_send on command_tx: Err once the receiver is gone
SendOk(s) == task[s].pc # "exited"

Enqueue(q, s, c) == [q EXCEPT ![s] = Append(@, c)]

\* LspHandle::shutdown with a send that never fails
shutdown_unchecked(q, s) == Enqueue(q, s, CmdShutdown)

\* LspHandle::shutdown
shutdown(q, s) == IF SendOk(s) THEN Enqueue(q, s, CmdShutdown) ELSE q

\* Drop for LspHandle
DropHandle(q, s) == shutdown(q, s)

\* ------------------------------------------------ LspManager (src/src)
FreeSessions == { s \in Sessions : task[s].pc = "unspawned" }
NextSid == CHOOSE s \in FreeSessions : \A o \in FreeSessions : s <= o

\* get_or_spawn without the registry lookup of its first lines
EdGetOrSpawn_without_lookup(l) ==
    /\ ed.pc = "idle"
    /\ IF ~config.lsp[l].present \/ ~config.lsp[l].enabled
       THEN /\ ed' = [ed EXCEPT !.ret = NoSession, !.language = l]
            /\ UNCHANGED <<task, handle>>
       ELSE /\ FreeSessions # {}
            /\ task' = [task EXCEPT ![NextSid] =
                          [FreshTask(l) EXCEPT !.pc = "starting"]]
            /\ handle' = [handle EXCEPT ![NextSid] =
                            [initialized |-> FALSE, live |-> TRUE]]
            /\ ed' = [ed EXCEPT !.pc = "init_send", !.language = l,
                                !.sid = NextSid, !.reply = "none"]
    /\ UNCHANGED <<command_rx, stdin, stdout, process, handles, config,
                   bridge, buffers, counters>>

\* LspManager::get_or_spawn up to LspHandle::spawn (runtime.spawn of the
\* task, the handle returned at once)
EdGetOrSpawn(l) ==
    /\ ed.pc = "idle"
    /\ IF handles[l] # NoSession
       THEN /\ ed' = [ed EXCEPT !.ret = handles[l], !.language = l]
            /\ UNCHANGED <<task, handle>>
       ELSE IF ~config.lsp[l].present \/ ~config.lsp[l].enabled
       THEN /\ ed' = [ed EXCEPT !.ret = NoSession, !.language = l]
            /\ UNCHANGED <<task, handle>>
       ELSE /\ FreeSessions # {}
            /\ task' = [task EXCEPT ![NextSid] =
                          [FreshTask(l) EXCEPT !.pc = "starting"]]
            /\ handle' = [handle EXCEPT ![NextSid] =
                            [initialized |-> FALSE, live |-> TRUE]]
            /\ ed' = [ed EXCEPT !.pc = "init_send", !.language = l,
                                !.sid = NextSid, !.reply = "none"]
    /\ UNCHANGED <<command_rx, stdin, stdout, process, handles, config,
                   bridge, buffers, counters>>

\* LspHandle::initialize, the blocking_send of the Initialize command; on
\* Err get_or_spawn returns None and the handle is dropped
EdInitSend ==
    /\ ed.pc = "init_send"
    /\ Len(command_rx[ed.sid]) < ChannelCapacity
    /\ IF SendOk(ed.sid)
       THEN /\ command_rx' = Enqueue(command_rx, ed.sid, CmdInitialize)
            /\ ed' = [ed EXCEPT !.pc = "init_recv", !.reply = "waiting"]
            /\ UNCHANGED handle
       ELSE /\ command_rx' = DropHandle(command_rx, ed.sid)
            /\ handle' = [handle EXCEPT ![ed.sid].live = FALSE]
            /\ ed' = [ed EXCEPT !.pc = "idle", !.ret = NoSession]
    /\ UNCHANGED <<task, stdin, stdout, process, handles, config, bridge,
                   buffers, counters>>

\* Variant of the match on the result of initialize in get_or_spawn: the
\* handle is inserted into the registry whatever initialize returned
EdInitRecv_inserts_always ==
    /\ ed.pc = "init_recv"
    /\ ed.reply \in {"ok", "err", "closed"}
    /\ handle' = [handle EXCEPT ![ed.sid].initialized = (ed.reply = "ok")]
    /\ handles' = [handles EXCEPT ![ed.language] = ed.sid]
    /\ ed' = [ed EXCEPT !.pc = "idle", !.ret = ed.sid, !.reply = "none"]
    /\ UNCHANGED <<task, command_rx, stdin, stdout, process, config, bridge,
                   buffers, counters>>

\* Variant of LspHandle::initialize: the flag of the handle is set when the
\* reply arrives, whatever it is
EdInitRecv_sets_flag_always ==
    /\ ed.pc = "init_recv"
    /\ ed.reply \in {"ok", "err", "closed"}
    /\ IF ed.reply = "ok"
       THEN /\ handle' = [handle EXCEPT ![ed.sid].initialized = TRUE]
            /\ handles' = [handles EXCEPT ![ed.language] = ed.sid]
            /\ ed' = [ed EXCEPT !.pc = "idle", !.ret = ed.sid, !.reply = "none"]
            /\ UNCHANGED command_rx
       ELSE /\ command_rx' = DropHandle(command_rx, ed.sid)
            /\ handle' = [handle EXCEPT ![ed.sid].initialized = TRUE,
                                        ![ed.sid].live = FALSE]
            /\ ed' = [ed EXCEPT !.pc = "idle", !.ret = NoSession, !.reply = "none"]
            /\ UNCHANGED handles
    /\ UNCHANGED <<task, stdin, stdout, process, config, bridge, buffers,
                   counters>>

\* LspHandle::initialize, the blocking_recv of the reply, and the match on
\* its result in get_or_spawn
EdInitRecv ==
    /\ ed.pc = "init_recv"
    /\ ed.reply \in {"ok", "err", "closed"}
    /\ IF ed.reply = "ok"
       THEN /\ handle' = [handle EXCEPT ![ed.sid].initialized = TRUE]
            /\ handles' = [handles EXCEPT ![ed.language] = ed.sid]
            /\ ed' = [ed EXCEPT !.pc = "idle", !.ret = ed.sid, !.reply = "none"]
            /\ UNCHANGED command_rx
       ELSE /\ command_rx' = DropHandle(command_rx, ed.sid)
            /\ handle' = [handle EXCEPT ![ed.sid].live = FALSE]
            /\ ed' = [ed EXCEPT !.pc = "idle", !.ret = NoSession, !.reply = "none"]
            /\ UNCHANGED handles
    /\ UNCHANGED <<task, stdin, stdout, process, config, bridge, buffers,
                   counters>>

InitTask ==
    /\ InitCommon
    /\ config.lsp["rust"].auto_start
    /\ config.lsp["python"] = NotConfigured
    /\ ~config.enable_inlay_hints

NextTask ==
    \/ \E l \in Langs : EdGetOrSpawn(l)
    \/ EdInitSend
    \/ EdInitRecv
    \/ \E s \in Sessions : TaskSpawn(s)
    \/ \E s \in Sessions : TaskRecvCommand(s)
    \/ \E s \in Sessions : TaskRead(s)
    \/ \E s \in Sessions : ServerWrite(s)
    \/ \E s \in Sessions : ServerCloseStdout(s)
    \/ \E s \in Sessions : ServerExit(s)

SpecTask == InitTask /\ [][NextTask]_vars

\* =====================================================================
\* Folding (crates/fresh-editor/src/view/folding.rs): the collapsed folds
\* of a buffer in the active view.  Buffer and MarkerList are collaborators
\* of the fold manager; the buffer text does not change while folds are
\* toggled here, so a marker stays at the byte it was created at.
\* =====================================================================
FoldChars == {"x", "\n"}

\* The contents a buffer may have: every text of at most MaxTextLen bytes
FoldTexts == UNION {[1..n -> FoldChars] : n \in 0..MaxTextLen}

\* Option::None of a byte offset
NoOffset == -1

\* lsp_types::FoldingRange as the tests build it: only the lines are set
FoldingRange(start_line, end_line) ==
    [start_line |-> start_line, end_line |-> end_line]

FoldingRanges == {FoldingRange(s, e) : s, e \in 0..MaxFoldLine}

\* The values of state.folding_ranges: at most MaxRanges ranges
FoldingRangeSets ==
    {ranges \in SUBSET FoldingRanges : Cardinality(ranges) <= MaxRanges}

\* The number of line breaks among the first n bytes of text
NewlinesBefore(text, n) == Cardinality({i \in 1..n : text[i] = "\n"})

\* Buffer::line_start_offset: the byte at which a (0-based) line starts,
\* None for a line the buffer does not have
line_start_offset(text, line) ==
    IF line = 0
    THEN 0
    ELSE LET nl == {i \in 1..Len(text) :
                      text[i] = "\n" /\ NewlinesBefore(text, i) = line}
         IN IF nl = {} THEN NoOffset ELSE CHOOSE i \in nl : TRUE

\* Buffer::get_line_number: the line a byte offset lies in
get_line_number(text, byte) ==
    NewlinesBefore(text, IF byte < Len(text) THEN byte ELSE Len(text))

\* MarkerList::create: a marker at position under an id not in use
create(marker_list, position) ==
    LET id == CHOOSE n \in 0..Cardinality(marker_list) :
                 /\ \A m \in marker_list : m.id # n
                 /\ \A k \in 0..(n - 1) : \E m \in marker_list : m.id = k
    IN [marker_list |-> marker_list \cup {[id |-> id, position |-> position]},
        id |-> id]

\* MarkerList::get_position
get_position(marker_list, id) ==
    IF \E m \in marker_list : m.id = id
    THEN (CHOOSE m \in marker_list : m.id = id).position
    ELSE NoOffset

\* MarkerList::delete
delete(marker_list, id) == {m \in marker_list : m.id # id}

\* FoldManager::add over the fields of one buffer: st.folds is the Vec
\* `ranges`, st.marker_list the buffer's MarkerList
add(st, start, end) ==
    IF end <= start
    THEN st
    ELSE LET s == create(st.marker_list, start)
             e == create(s.marker_list, end)
         IN [st EXCEPT !.marker_list = e.marker_list,
                       !.folds = Append(@, [start_marker |-> s.id,
                                            end_marker |-> e.id])]

\* FoldManager::clear
clear(st) ==
    [st EXCEPT !.folds = <<>>,
               !.marker_list =
                   {m \in @ : \A i \in DOMAIN st.folds :
                                 /\ m.id # st.folds[i].start_marker
                                 /\ m.id # st.folds[i].end_marker}]

\* The closure of `retain` in remove_by_header_line: whether the fold is
\* the one collapsed under header_line
HeaderIs(st, range, header_line) ==
    LET start_byte == get_position(st.marker_list, range.start_marker)
        start_line == get_line_number(st.text, start_byte)
    IN /\ start_byte # NoOffset
       /\ start_line # 0
       /\ start_line - 1 = header_line

\* Variant of FoldManager::remove_by_header_line: a fold is looked up by
\* the line its hidden range starts at
remove_by_start_line(st, header_line) ==
    LET gone(range) ==
            LET start_byte == get_position(st.marker_list, range.start_marker)
            IN /\ start_byte # NoOffset
               /\ get_line_number(st.text, start_byte) = header_line
        to_delete == {i \in DOMAIN st.folds : gone(st.folds[i])}
        keep(range) == ~gone(range)
    IN [st |-> [st EXCEPT
                  !.folds = SelectSeq(@, keep),
                  !.marker_list =
                      {m \in @ : \A i \in to_delete :
                                    /\ m.id # st.folds[i].start_marker
                                    /\ m.id # st.folds[i].end_marker}],
        removed |-> to_delete # {}]

\* FoldManager::remove_by_header_line: the folds under header_line are
\* taken out of `ranges` and their markers deleted; whether one was found
remove_by_header_line(st, header_line) ==
    LET to_delete == {i \in DOMAIN st.folds :
                        HeaderIs(st, st.folds[i], header_line)}
        keep(range) == ~HeaderIs(st, range, header_line)
    IN [st |-> [st EXCEPT
                  !.folds = SelectSeq(@, keep),
                  !.marker_list =
                      {m \in @ : \A i \in to_delete :
                                    /\ m.id # st.folds[i].start_marker
                                    /\ m.id # st.folds[i].end_marker}],
        removed |-> to_delete # {}]

\* FoldManager::resolved_ranges: the folds as lines and bytes, without the
\* entries that no longer resolve to a hidden range
resolved_ranges(st) ==
    LET resolve(range) ==
            LET start_byte == get_position(st.marker_list, range.start_marker)
                end_byte == get_position(st.marker_list, range.end_marker)
                start_line == get_line_number(st.text, start_byte)
                end_line == get_line_number(st.text, end_byte - 1)
            IN [valid |-> /\ start_byte # NoOffset
                          /\ end_byte # NoOffset
                          /\ end_byte > start_byte
                          /\ start_line # 0
                          /\ end_line >= start_line,
                range |-> [header_line |-> start_line - 1,
                           start_line |-> start_line,
                           end_line |-> end_line,
                           start_byte |-> start_byte,
                           end_byte |-> end_byte]]
    IN {resolve(st.folds[i]).range :
          i \in {j \in DOMAIN st.folds : resolve(st.folds[j]).valid}}

\* FoldManager::collapsed_headers: the header lines of the collapsed folds
collapsed_headers(st) == {r.header_line : r \in resolved_ranges(st)}

\* =====================================================================
\* Editor thread (crates/fresh-editor/src/app/lsp_actions.rs)
\* =====================================================================
\* What a handler of the editor thread reads and writes, threaded through
\* the calls it makes
World ==
    [task |-> task, command_rx |-> command_rx, stdin |-> stdin,
     process |-> process, handle |-> handle, handles |-> handles,
     bridge |-> bridge, buffers |-> buffers, ed |-> ed]

Commit(w) ==
    /\ task' = w.task
    /\ command_rx' = w.command_rx
    /\ stdin' = w.stdin
    /\ process' = w.process
    /\ handle' = w.handle
    /\ handles' = w.handles
    /\ bridge' = w.bridge
    /\ buffers' = w.buffers
    /\ ed' = w.ed

\* state.language of a buffer: every file of the model is a Rust file
LanguageOf(b) == "rust"

\* A send that does not notice that the receiver is gone
Send_to_closed(w, s, c) ==
    [w |-> [w EXCEPT !.command_rx[s] = Append(@, c)], ok |-> TRUE]

\* A send on one channel shared by the handles: the command reaches the
\* queue of every session that still receives
Send_shared_channel(w, s, c) ==
    IF w.task[s].pc = "exited"
    THEN [w |-> w, ok |-> FALSE]
    ELSE [w |-> [w EXCEPT !.command_rx =
                    [x \in Sessions |->
                       IF w.task[x].pc \in {"select", "await_reply"}
                       THEN Append(w.command_rx[x], c)
                       ELSE w.command_rx[x]]],
          ok |-> TRUE]

\* Variant of the send through a handle: the command goes to the front of
\* the queue
Send_to_front(w, s, c) ==
    IF w.task[s].pc = "exited"
    THEN [w |-> w, ok |-> FALSE]
    ELSE [w |-> [w EXCEPT !.command_rx[s] = <<c>> \o @], ok |-> TRUE]

\* blocking_send of a command through the handle of session s
Send(w, s, c) ==
    IF w.task[s].pc = "exited"
    THEN [w |-> w, ok |-> FALSE]
    ELSE [w |-> [w EXCEPT !.command_rx[s] = Append(@, c)], ok |-> TRUE]

\* LspHandle::did_open without the check of the initialized flag
did_open_unchecked(w, s, uri, text, language_id) ==
    Send(w, s, CmdDidOpen(uri, text, language_id))

\* LspHandle::did_open
did_open(w, s, uri, text, language_id) ==
    IF ~w.handle[s].initialized
    THEN [w |-> w, ok |-> FALSE]
    ELSE Send(w, s, CmdDidOpen(uri, text, language_id))

\* LspHandle::did_change
did_change(w, s, uri, content_changes) ==
    IF ~w.handle[s].initialized
    THEN [w |-> w, ok |-> FALSE]
    ELSE Send(w, s, CmdDidChange(uri, content_changes))

\* LspHandle::did_close (not among the sources; as did_open)
did_close(w, s, uri) ==
    IF ~w.handle[s].initialized
    THEN [w |-> w, ok |-> FALSE]
    ELSE Send(w, s, CmdDidClose(uri))

\* LspHandle::document_diagnostic / inlay_hints (not among the sources):
\* fire-and-enqueue
document_diagnostic(w, s, request_id, uri) ==
    Send(w, s, CmdDocumentDiagnostic(request_id, uri))

inlay_hints(w, s, request_id, uri) ==
    Send(w, s, CmdInlayHints(request_id, uri))

\* LspHandle::id (not among the sources): the identity of the session
HandleId(s) == s

\* -------------------------------- manager of the crate (not in sources)
WFree(w) == { s \in Sessions : w.task[s].pc = "unspawned" }

\* A session spawned and taken through Unstarted -> Initializing -> Ready:
\* initialize request and response, `initialized` notification,
\* capabilities stored, Initialized pushed to the bridge
SpawnReady(w, l) ==
    LET s == CHOOSE x \in WFree(w) : \A o \in WFree(w) : x <= o
    IN [w EXCEPT
          !.task[s] = [FreshTask(l) EXCEPT !.pc = "select", !.next_id = 1,
                                           !.capabilities = TRUE,
                                           !.initialized = TRUE],
          !.stdin[s] = <<RequestFrame(0, "initialize"),
                         NotificationFrame("initialized", "", 0, <<>>)>>,
          !.process[s] = "running",
          !.handle[s] = [initialized |-> TRUE, live |-> TRUE],
          !.handles[l] = s,
          !.bridge = Append(@, LspInitialized(l))]

\* LspManager::try_spawn
try_spawn(w, l) ==
    IF w.handles[l] # NoSession
    THEN [w |-> w, result |-> "AlreadyRunning"]
    ELSE IF ~config.lsp[l].present
    THEN [w |-> w, result |-> "NotConfigured"]
    ELSE IF ~config.lsp[l].enabled \/ ~config.lsp[l].auto_start
    THEN [w |-> w, result |-> "Disabled"]
    ELSE [w |-> SpawnReady(w, l), result |-> "Spawned"]

\* LspManager::get_handle_mut
get_handle_mut(w, l) == w.handles[l]

\* LspManager::manual_restart: shut down the existing session if any, clear
\* the registry entry (the handle is dropped), re-spawn and re-initialize;
\* an explicit user action, so auto_start is not consulted
manual_restart(w, l) ==
    IF ~config.lsp[l].present \/ ~config.lsp[l].enabled
    THEN [w |-> w, success |-> FALSE]
    ELSE LET old == w.handles[l]
             w1 == IF old = NoSession THEN w
                   ELSE [w EXCEPT
                           !.command_rx = DropHandle(shutdown(@, old), old),
                           !.handle[old].live = FALSE,
                           !.handles[l] = NoSession]
         IN [w |-> SpawnReady(w1, l), success |-> TRUE]

\* Whether the call needs a session id that the bound still allows
SpawnAllowed(need) == need => FreeSessions # {}

TrySpawnSpawns(l) ==
    /\ handles[l] = NoSession
    /\ config.lsp[l].present /\ config.lsp[l].enabled /\ config.lsp[l].auto_start

\* ------------------------------------------------------ lsp_actions.rs
\* send_lsp_did_open_for_buffer without the insert into lsp_opened_with
after_did_open_unrecorded(w, b, h) ==
    LET id1 == w.ed.next_lsp_request_id
        w2 == document_diagnostic([w EXCEPT !.ed.next_lsp_request_id = id1 + 1],
                                  h, id1, b).w
        id2 == w2.ed.next_lsp_request_id
        w3 == IF config.enable_inlay_hints
              THEN inlay_hints([w2 EXCEPT !.ed.next_lsp_request_id = id2 + 1],
                               h, id2, b).w
              ELSE w2
    IN [w3 EXCEPT !.ed.folding_ranges_debounce = @ \cup {b}]

\* Editor::send_lsp_did_open_for_buffer after the didOpen was enqueued:
\* record the handle, request diagnostics and inlay hints, schedule the
\* folding-range refresh
after_did_open(w, b, h) ==
    LET w1 == [w EXCEPT !.buffers[b].lsp_opened_with = @ \cup {HandleId(h)}]
        id1 == w1.ed.next_lsp_request_id
        w2 == document_diagnostic([w1 EXCEPT !.ed.next_lsp_request_id = id1 + 1],
                                  h, id1, b).w
        id2 == w2.ed.next_lsp_request_id
        w3 == IF config.enable_inlay_hints
              THEN inlay_hints([w2 EXCEPT !.ed.next_lsp_request_id = id2 + 1],
                               h, id2, b).w
              ELSE w2
    IN [w3 EXCEPT !.ed.folding_ranges_debounce = @ \cup {b}]

\* Editor::send_lsp_did_open_for_buffer
send_lsp_did_open_for_buffer(w, b, language) ==
    LET uri == b
        text == w.buffers[b].text
        r == try_spawn(w, language)
        h == get_handle_mut(r.w, language)
    IN IF r.result # "Spawned"
       THEN r.w
       ELSE IF h = NoSession
       THEN r.w
       ELSE LET d == did_open(r.w, h, uri, text, language)
            IN IF ~d.ok THEN d.w ELSE after_did_open(d.w, b, h)

\* Editor::enable_lsp_for_buffer (every buffer of the model has a file path)
enable_lsp_for_buffer(w, b, language) ==
    send_lsp_did_open_for_buffer([w EXCEPT !.buffers[b].lsp_enabled = TRUE],
                                 b, language)

\* Variant of the second half of disable_lsp_for_buffer: the folding-range
\* requests of the buffer stay where they are
disable_mark_keeps_requests(w, b) ==
    [w EXCEPT !.buffers[b] = [clear(@) EXCEPT !.lsp_enabled = FALSE,
                                              !.lsp_opened_with = {},
                                              !.folding_ranges = {}],
              !.ed.stored_diagnostics = @ \ {b},
              !.ed.diagnostic_result_ids = @ \ {b},
              !.ed.stored_folding_ranges = @ \ {b},
              !.ed.folding_ranges_debounce = @ \ {b}]

\* Variant of the second half of disable_lsp_for_buffer: the handle
\* identities stay recorded in lsp_opened_with
disable_mark_keeps_opened_with(w, b) ==
    [w EXCEPT !.buffers[b] = [clear(@) EXCEPT !.lsp_enabled = FALSE,
                                              !.folding_ranges = {}],
              !.ed.stored_diagnostics = @ \ {b},
              !.ed.diagnostic_result_ids = @ \ {b},
              !.ed.stored_folding_ranges = @ \ {b},
              !.ed.folding_ranges_in_flight = @ \ {b},
              !.ed.folding_ranges_debounce = @ \ {b},
              !.ed.pending_folding_range_requests =
                  {req \in @ : req.buffer_id # b}]

\* Editor::disable_lsp_for_buffer, lines 356-392: the metadata and caches
disable_mark(w, b) ==
    [w EXCEPT !.buffers[b] = [clear(@) EXCEPT !.lsp_enabled = FALSE,
                                              !.lsp_opened_with = {},
                                              !.folding_ranges = {}],
              !.ed.stored_diagnostics = @ \ {b},
              !.ed.diagnostic_result_ids = @ \ {b},
              !.ed.stored_folding_ranges = @ \ {b},
              !.ed.folding_ranges_in_flight = @ \ {b},
              !.ed.folding_ranges_debounce = @ \ {b},
              !.ed.pending_folding_range_requests =
                  {req \in @ : req.buffer_id # b}]

\* Variant of disable_lsp_for_buffer: the metadata is changed before the
\* didClose is sent
disable_mark_then_close(w, b) ==
    LET w1 == disable_mark(w, b)
        h == get_handle_mut(w1, LanguageOf(b))
    IN IF h = NoSession
       THEN [w |-> w1, ok |-> FALSE]
       ELSE did_close(w1, h, b)

\* Editor::disable_lsp_for_buffer, lines 322-354: the didClose
disable_send_did_close(w, b) ==
    LET h == get_handle_mut(w, LanguageOf(b))
    IN IF h = NoSession
       THEN [w |-> w, ok |-> FALSE]
       ELSE did_close(w, h, b)

\* Editor::reopen_buffers_for_language over the buffers in iteration order
RECURSIVE reopen_buffers(_, _, _)
reopen_buffers(w, order, language) ==
    IF order = <<>>
    THEN w
    ELSE LET b == Head(order)
             r == try_spawn(w, language)
             h == get_handle_mut(r.w, language)
             w1 == IF ~w.buffers[b].open \/ LanguageOf(b) # language
                   THEN w
                   ELSE IF r.result # "Spawned" \/ h = NoSession
                   THEN r.w
                   ELSE LET d == did_open(r.w, h, b, w.buffers[b].text, language)
                        IN IF ~d.ok THEN d.w
                           ELSE [d.w EXCEPT !.buffers[b].lsp_opened_with =
                                               @ \cup {HandleId(h)}]
         IN reopen_buffers(w1, Tail(order), language)

\* Variant of reopen_buffers_for_language: the didOpen is sent for every
\* buffer of the language whenever the language has a handle
RECURSIVE reopen_buffers_any_result(_, _, _)
reopen_buffers_any_result(w, order, language) ==
    IF order = <<>>
    THEN w
    ELSE LET b == Head(order)
             r == try_spawn(w, language)
             h == get_handle_mut(r.w, language)
             w1 == IF ~w.buffers[b].open \/ LanguageOf(b) # language \/ h = NoSession
                   THEN r.w
                   ELSE LET d == did_open(r.w, h, b, w.buffers[b].text, language)
                        IN IF ~d.ok THEN d.w
                           ELSE [d.w EXCEPT !.buffers[b].lsp_opened_with =
                                               @ \cup {HandleId(h)}]
         IN reopen_buffers_any_result(w1, Tail(order), language)

reopen_buffers_for_language(w, order, language) ==
    reopen_buffers(w, order, language)

\* HashMap iteration orders of self.buffers
Orders ==
    { o \in [1..Cardinality(Paths) -> Paths] :
        \A i, j \in DOMAIN o : i # j => o[i] # o[j] }

\* Opening a file (its code is not among the sources): the buffer exists
\* with LSP enabled, and the enabling policy runs: spawn the session if it
\* is not running, send DidOpen with the current text, record the handle
open_file(w, b) ==
    LET l == LanguageOf(b)
        w0 == [w EXCEPT !.buffers[b].open = TRUE]
        r == try_spawn(w0, l)
        h == get_handle_mut(r.w, l)
    IN IF h = NoSession
       THEN r.w
       ELSE LET d == did_open(r.w, h, b, w0.buffers[b].text, l)
            IN IF ~d.ok THEN d.w ELSE after_did_open(d.w, b, h)

\* An edit of the buffer and the notification of the server (its code is
\* not among the sources): a didChange goes to the session the buffer was
\* opened with, and only while LSP is enabled for the buffer
edit_buffer(w, b, c) ==
    LET l == LanguageOf(b)
        h == get_handle_mut(w, l)
        w0 == [w EXCEPT !.buffers[b].text = Append(@, c)]
    IN IF w.buffers[b].lsp_enabled /\ h # NoSession
          /\ HandleId(h) \in w.buffers[b].lsp_opened_with
       THEN did_change(w0, h, b, <<c>>).w
       ELSE w0

Done(w, what, b) == [w EXCEPT !.ed.pc = "idle", !.ed.last = what, !.ed.buf = b]

EdOpenFile(b) ==
    /\ ed.pc = "idle"
    /\ ~buffers[b].open
    /\ SpawnAllowed(TrySpawnSpawns(LanguageOf(b)))
    /\ Commit(Done(open_file(World, b), "open", b))
    /\ UNCHANGED <<stdout, config, counters>>

EdEdit(b) ==
    /\ ed.pc = "idle"
    /\ buffers[b].open
    /\ counters.edits < MaxEdits
    /\ \E c \in Chars : Commit(Done(edit_buffer(World, b, c), "edit", b))
    /\ counters' = [counters EXCEPT !.edits = @ + 1]
    /\ UNCHANGED <<stdout, config>>

\* Editor::handle_lsp_toggle_for_buffer with b the active buffer, LSP off
EdToggleOn(b) ==
    /\ ed.pc = "idle"
    /\ buffers[b].open
    /\ config.lsp[LanguageOf(b)].present
    /\ ~buffers[b].lsp_enabled
    /\ counters.toggles < MaxToggles
    /\ SpawnAllowed(TrySpawnSpawns(LanguageOf(b)))
    /\ Commit(Done(enable_lsp_for_buffer(World, b, LanguageOf(b)), "enable", b))
    /\ counters' = [counters EXCEPT !.toggles = @ + 1]
    /\ UNCHANGED <<stdout, config>>

\* Editor::handle_lsp_toggle_for_buffer with b the active buffer, LSP on:
\* disable_lsp_for_buffer up to the didClose
EdToggleOff(b) ==
    /\ ed.pc = "idle"
    /\ buffers[b].open
    /\ config.lsp[LanguageOf(b)].present
    /\ buffers[b].lsp_enabled
    /\ counters.toggles < MaxToggles
    /\ LET r == disable_send_did_close(World, b)
       IN Commit([r.w EXCEPT !.ed.pc = "disable_mark", !.ed.buf = b,
                             !.ed.sent = r.ok, !.ed.last = "disable"])
    /\ counters' = [counters EXCEPT !.toggles = @ + 1]
    /\ UNCHANGED <<stdout, config>>

\* disable_lsp_for_buffer from `metadata.disable_lsp` on
EdDisableMark ==
    /\ ed.pc = "disable_mark"
    /\ Commit([disable_mark(World, ed.buf) EXCEPT !.ed.pc = "idle"])
    /\ UNCHANGED <<stdout, config, counters>>

\* Editor::handle_lsp_restart with b the active buffer
EdRestart(b) ==
    /\ ed.pc = "idle"
    /\ buffers[b].open
    /\ SpawnAllowed(config.lsp[LanguageOf(b)].present
                    /\ config.lsp[LanguageOf(b)].enabled)
    /\ LET l == LanguageOf(b)
           r == manual_restart(World, l)
       IN \E order \in Orders :
             Commit(Done([(IF r.success
                           THEN reopen_buffers_for_language(r.w, order, l)
                           ELSE r.w)
                            EXCEPT !.ed.ret = IF r.success THEN r.w.handles[l]
                                              ELSE NoSession],
                         "restart", ""))
    /\ UNCHANGED <<stdout, config, counters>>

\* The editor thread and the command arm of the session tasks; the children
\* keep running and stay silent here (their output is the subject of
\* SpecTask and SpecSession)
Init ==
    /\ InitCommon
    /\ config.lsp["python"] = NotConfigured

Next ==
    \/ \E b \in Paths : EdOpenFile(b)
    \/ \E b \in Paths : EdEdit(b)
    \/ \E b \in Paths : EdToggleOn(b)
    \/ \E b \in Paths : EdToggleOff(b)
    \/ EdDisableMark
    \/ \E b \in Paths : EdRestart(b)
    \/ \E s \in Sessions : TaskRecvCommand(s)

Spec == Init /\ [][Next]_vars

\* =====================================================================
\* One session driven through its handle by an arbitrary client
\* =====================================================================
InitSession ==
    /\ InitCommon
    /\ config.lsp["rust"] = AutoStarted
    /\ config.lsp["python"] = NotConfigured
    /\ ~config.enable_inlay_hints

ClientSpawn(l) ==
    /\ handles[l] = NoSession
    /\ FreeSessions # {}
    /\ Commit(try_spawn(World, l).w)
    /\ UNCHANGED <<stdout, config, counters>>

ClientCall(w) ==
    /\ counters.calls < MaxCalls
    /\ Commit(w)
    /\ counters' = [counters EXCEPT !.calls = @ + 1]
    /\ UNCHANGED <<stdout, config>>

ClientDidOpen(l, uri) ==
    /\ handles[l] # NoSession
    /\ \E text \in {<<"x">>} :
          ClientCall(did_open(World, handles[l], uri, text, l).w)

ClientDidChange(l, uri) ==
    /\ handles[l] # NoSession
    /\ \E c \in Chars : ClientCall(did_change(World, handles[l], uri, <<c>>).w)

ClientDidClose(l, uri) ==
    /\ handles[l] # NoSession
    /\ ClientCall(did_close(World, handles[l], uri).w)

\* LspManager::get_or_spawn for a language the registry holds
ClientGetOrSpawn(l) ==
    /\ handles[l] # NoSession
    /\ EdGetOrSpawn(l)

NextSession ==
    \/ \E l \in Langs : ClientSpawn(l)
    \/ \E l \in Langs : ClientGetOrSpawn(l)
    \/ \E l \in Langs, uri \in Paths : ClientDidOpen(l, uri)
    \/ \E l \in Langs, uri \in Paths : ClientDidChange(l, uri)
    \/ \E l \in Langs, uri \in Paths : ClientDidClose(l, uri)
    \/ \E s \in Sessions : TaskRecvCommand(s)
    \/ \E s \in Sessions : TaskRead(s)
    \/ \E s \in Sessions : ServerWrite(s)
    \/ \E s \in Sessions : ServerExit(s)

SpecSession == InitSession /\ [][NextSession]_vars

\* =====================================================================
\* A handle used by its holder between LspHandle::spawn and initialize
\* =====================================================================
\* LspHandle::did_open called on the handle LspHandle::spawn returned, before
\* initialize
HandleDidOpen(uri) ==
    /\ ed.pc = "init_send"
    /\ counters.calls < MaxCalls
    /\ LET r == did_open(World, ed.sid, uri, <<"x">>, ed.language)
       IN Commit([r.w EXCEPT !.ed.sent = r.ok, !.ed.last = "did_open",
                             !.ed.buf = uri])
    /\ counters' = [counters EXCEPT !.calls = @ + 1]
    /\ UNCHANGED <<stdout, config>>

\* LspHandle::did_change called on that handle
HandleDidChange(uri) ==
    /\ ed.pc = "init_send"
    /\ counters.calls < MaxCalls
    /\ \E c \in Chars :
          LET r == did_change(World, ed.sid, uri, <<c>>)
          IN Commit([r.w EXCEPT !.ed.sent = r.ok, !.ed.last = "did_change",
                                !.ed.buf = uri])
    /\ counters' = [counters EXCEPT !.calls = @ + 1]
    /\ UNCHANGED <<stdout, config>>

NextHandle ==
    \/ \E l \in Langs : EdGetOrSpawn(l)
    \/ EdInitSend
    \/ EdInitRecv
    \/ \E uri \in Paths : HandleDidOpen(uri)
    \/ \E uri \in Paths : HandleDidChange(uri)
    \/ \E s \in Sessions : TaskSpawn(s)
    \/ \E s \in Sessions : TaskRecvCommand(s)
    \/ \E s \in Sessions : TaskRead(s)
    \/ \E s \in Sessions : ServerWrite(s)
    \/ \E s \in Sessions : ServerCloseStdout(s)
    \/ \E s \in Sessions : ServerExit(s)

SpecHandle == InitTask /\ [][NextHandle]_vars

\* =====================================================================
\* The manager's registry with a session per language, and its shutdown
\* =====================================================================
\* HashMap::clear of self.handles: every handle of the registry is dropped
handles_clear(w) ==
    LET held == { w.handles[l] : l \in Langs } \ {NoSession}
    IN [w EXCEPT
          !.command_rx = [s \in Sessions |->
                            IF s \in held THEN DropHandle(w.command_rx, s)[s]
                            ELSE w.command_rx[s]],
          !.handle = [s \in Sessions |->
                        IF s \in held THEN [w.handle[s] EXCEPT !.live = FALSE]
                        ELSE w.handle[s]],
          !.handles = [l \in Langs |-> NoSession]]

\* shutdown_all with a `?` on the result of handle.shutdown(): the first
\* failing attempt ends the call
RECURSIVE shutdown_all_until_error(_, _)
shutdown_all_until_error(w, order) ==
    IF order = <<>>
    THEN handles_clear(w)
    ELSE LET s == w.handles[Head(order)]
         IN IF s # NoSession /\ ~SendOk(s)
            THEN w
            ELSE shutdown_all_until_error(
                    IF s = NoSession THEN w
                    ELSE [w EXCEPT !.command_rx = shutdown(@, s)],
                    Tail(order))

\* LspManager::shutdown_all: handle.shutdown() for every entry of the
\* registry in iteration order, its result ignored, then handles.clear()
RECURSIVE shutdown_all(_, _)
shutdown_all(w, order) ==
    IF order = <<>>
    THEN handles_clear(w)
    ELSE LET s == w.handles[Head(order)]
         IN shutdown_all(IF s = NoSession THEN w
                         ELSE [w EXCEPT !.command_rx = shutdown(@, s)],
                         Tail(order))

\* HashMap iteration orders of self.handles
LangOrders ==
    { o \in [1..Cardinality(Langs) -> Langs] :
        \A i, j \in DOMAIN o : i # j => o[i] # o[j] }

InitManager ==
    /\ InitCommon
    /\ config.lsp = [l \in Langs |-> AutoStarted]
    /\ ~config.enable_inlay_hints

MgrSpawn(l) ==
    /\ ed.pc = "idle"
    /\ ClientSpawn(l)

\* Whether every handle.shutdown() of a shutdown_all made now answers Ok
AllAccept == \A l \in Langs : handles[l] # NoSession => SendOk(handles[l])

\* A call of LspManager::shutdown_all by the owner of the manager
MgrShutdownAll ==
    /\ ed.pc = "idle"
    /\ \E order \in LangOrders :
          Commit([shutdown_all(World, order) EXCEPT !.ed.last = "shutdown_all",
                                                    !.ed.sent = AllAccept])
    /\ UNCHANGED <<stdout, config, counters>>

\* Drop for LspManager: shutdown_all, and the manager is gone
MgrDrop ==
    /\ ed.pc = "idle"
    /\ \E order \in LangOrders :
          Commit([shutdown_all(World, order) EXCEPT !.ed.last = "drop",
                                                    !.ed.sent = AllAccept,
                                                    !.ed.pc = "dropped"])
    /\ UNCHANGED <<stdout, config, counters>>

NextManager ==
    \/ \E l \in Langs : MgrSpawn(l)
    \/ MgrShutdownAll
    \/ MgrDrop
    \/ \E s \in Sessions : TaskRecvCommand(s)
    \/ \E s \in Sessions : TaskRead(s)
    \/ \E s \in Sessions : ServerWrite(s)
    \/ \E s \in Sessions : ServerExit(s)

SpecManager == InitManager /\ [][NextManager]_vars

\* =====================================================================
\* Two languages with a session each, driven through their handles
\* =====================================================================
\* A call through the handle of language l: r is what the call answers
LangCall(l, what, r) ==
    /\ ed.pc = "idle"
    /\ handles[l] # NoSession
    /\ counters.calls < MaxRequests
    /\ Commit([r.w EXCEPT !.ed.language = l, !.ed.last = what, !.ed.sent = r.ok])
    /\ counters' = [counters EXCEPT !.calls = @ + 1]
    /\ UNCHANGED <<stdout, config>>

LangDidOpen(l) ==
    LangCall(l, "did_open", did_open(World, handles[l], "a.rs", <<"x">>, l))

LangDidChange(l) ==
    LangCall(l, "did_change", did_change(World, handles[l], "a.rs", <<"x">>))

LangDocumentDiagnostic(l) ==
    LangCall(l, "document_diagnostic",
             document_diagnostic(World, handles[l], counters.calls, "a.rs"))

NextLanguages ==
    \/ \E l \in Langs : MgrSpawn(l)
    \/ \E l \in Langs : LangDidOpen(l)
    \/ \E l \in Langs : LangDidChange(l)
    \/ \E l \in Langs : LangDocumentDiagnostic(l)
    \/ \E s \in Sessions : TaskRecvCommand(s)
    \/ \E s \in Sessions : TaskRead(s)
    \/ \E s \in Sessions : ServerWrite(s)

SpecLanguages == InitManager /\ [][NextLanguages]_vars

\* =====================================================================
\* The AsyncBridge: clones of its sender, and the calls on the bridge
\* =====================================================================
\* The holders of a clone of bridge.sender()
Producers == {1, 2}

\* sender.send(msg) on an unbounded std::sync::mpsc channel.  The message
\* carries who sent it and its number in the order of the sends.
BridgeSend(p) ==
    /\ counters.calls < MaxMessages
    /\ bridge' = Append(bridge, FileChanged(<<p, counters.calls + 1>>))
    /\ counters' = [counters EXCEPT !.calls = @ + 1]
    /\ UNCHANGED <<task, command_rx, stdin, stdout, process, handle, handles,
                   config, ed, buffers>>

\* AsyncBridge::try_recv_all, its entry: the empty Vec and the lock
TryRecvAllLock ==
    /\ ed.pc = "idle"
    /\ ed' = [ed EXCEPT !.pc = "try_recv_all", !.messages = <<>>]
    /\ UNCHANGED <<task, command_rx, stdin, stdout, process, handle, handles,
                   config, bridge, buffers, counters>>

\* AsyncBridge::try_recv_all, one turn of `while let Ok(msg) = try_recv()`:
\* the next message is pushed, or the channel is empty and the Vec is
\* returned (ed.returned: everything the calls have returned so far)
TryRecvAllStep ==
    /\ ed.pc = "try_recv_all"
    /\ IF bridge # <<>>
       THEN /\ bridge' = Tail(bridge)
            /\ ed' = [ed EXCEPT !.messages = Append(@, Head(bridge))]
       ELSE /\ bridge' = bridge
            /\ ed' = [ed EXCEPT !.pc = "idle", !.last = "try_recv_all",
                                !.returned = @ \o ed.messages]
    /\ UNCHANGED <<task, command_rx, stdin, stdout, process, handle, handles,
                   config, buffers, counters>>

\* AsyncBridge::has_messages: receiver.try_recv().is_ok() takes the message
\* it finds out of the channel
HasMessages ==
    /\ ed.pc = "idle"
    /\ bridge' = IF bridge = <<>> THEN bridge ELSE Tail(bridge)
    /\ ed' = [ed EXCEPT !.last = "has_messages", !.sent = (bridge # <<>>)]
    /\ UNCHANGED <<task, command_rx, stdin, stdout, process, handle, handles,
                   config, buffers, counters>>

NextBridge ==
    \/ \E p \in Producers : BridgeSend(p)
    \/ TryRecvAllLock
    \/ TryRecvAllStep
    \/ HasMessages

SpecBridge == InitManager /\ [][NextBridge]_vars

\* =====================================================================
\* Folding in the editor: one open buffer, its folding ranges and toggles
\* =====================================================================
\* The range toggle_fold_at_line picks for a line: among the ranges that
\* start at the line and span more than it, the one with the fewest lines
ExactRanges(st, line) ==
    {f \in st.folding_ranges : f.end_line > f.start_line /\ f.start_line = line}

\* Variant of Editor::toggle_fold_at_line: without folding ranges nothing
\* is toggled, a collapsed fold included
toggle_fold_ranges_first(w, b, line) ==
    LET st == w.buffers[b]
        r == remove_by_header_line(st, line)
        exact == ExactRanges(st, line)
        range == CHOOSE f \in exact :
                    \A g \in exact : f.end_line - f.start_line
                                        <= g.end_line - g.start_line
        start_byte == line_start_offset(st.text, line + 1)
        next == line_start_offset(st.text, range.end_line + 1)
        end_byte == IF next = NoOffset THEN Len(st.text) ELSE next
    IN IF st.folding_ranges = {}
       THEN w
       ELSE IF r.removed
       THEN [w EXCEPT !.buffers[b] = r.st]
       ELSE IF exact = {} \/ start_byte = NoOffset
       THEN w
       ELSE [w EXCEPT !.buffers[b] = add(st, start_byte, end_byte)]

\* Editor::toggle_fold_at_line, lines 213-313, over the folds of the active
\* view: a fold collapsed under the line is expanded; otherwise the range
\* of the line is collapsed, from the start of the next line to the start
\* of the line after the range (or the end of the buffer).  The cursors
\* and the viewport it moves are not part of the state here.
toggle_fold_at_line(w, b, line) ==
    LET st == w.buffers[b]
        r == remove_by_header_line(st, line)
        exact == ExactRanges(st, line)
        range == CHOOSE f \in exact :
                    \A g \in exact : f.end_line - f.start_line
                                        <= g.end_line - g.start_line
        start_line == line + 1
        end_line == range.end_line
        start_byte == line_start_offset(st.text, start_line)
        next == line_start_offset(st.text, end_line + 1)
        end_byte == IF next = NoOffset THEN Len(st.text) ELSE next
    IN IF r.removed
       THEN [w EXCEPT !.buffers[b] = r.st]
       ELSE IF st.folding_ranges = {} \/ exact = {}
       THEN w
       ELSE IF start_line > end_line \/ start_byte = NoOffset
       THEN w
       ELSE [w EXCEPT !.buffers[b] = add(st, start_byte, end_byte)]

\* The buffer whose folds are toggled
FoldBuffer == "a.rs"

InitFold ==
    /\ task = [s \in Sessions |-> FreshTask("")]
    /\ command_rx = [s \in Sessions |-> <<>>]
    /\ stdin = [s \in Sessions |-> <<>>]
    /\ stdout = [s \in Sessions |-> FreshStdout]
    /\ process = [s \in Sessions |-> "none"]
    /\ handle = [s \in Sessions |-> [initialized |-> FALSE, live |-> FALSE]]
    /\ handles = [l \in Langs |-> NoSession]
    /\ config = [lsp |-> [l \in Langs |-> AutoStarted],
                 enable_inlay_hints |-> FALSE]
    /\ bridge = <<>>
    /\ ed = IdleEd
    /\ \E text \in FoldTexts :
          buffers = [p \in Paths |->
                       [open |-> (p = FoldBuffer),
                        text |-> IF p = FoldBuffer THEN text ELSE <<>>,
                        lsp_enabled |-> TRUE, lsp_opened_with |-> {},
                        folding_ranges |-> {}, folds |-> <<>>,
                        marker_list |-> {}]]
    /\ counters = [edits |-> 0, toggles |-> 0, tokens |-> 0, calls |-> 0,
                  errors |-> 0, ignored |-> 0]

\* state.folding_ranges = vec![...]: the folding ranges of the buffer are
\* replaced (by the ranges a server reported, or by none after it is gone)
SetFoldingRanges(ranges) ==
    /\ ed.pc = "idle"
    /\ ranges # buffers[FoldBuffer].folding_ranges
    /\ buffers' = [buffers EXCEPT ![FoldBuffer].folding_ranges = ranges]
    /\ ed' = [ed EXCEPT !.last = "set_folding_ranges", !.buf = FoldBuffer]
    /\ UNCHANGED <<task, command_rx, stdin, stdout, process, handle, handles,
                   config, bridge, counters>>

\* A call of Editor::toggle_fold_at_line(buffer, line); ed.sent records
\* whether the call took a fold out of the fold manager
ToggleFold(line) ==
    /\ ed.pc = "idle"
    /\ counters.toggles < MaxToggles
    /\ LET w == toggle_fold_at_line(World, FoldBuffer, line)
       IN Commit([Done(w, "toggle_fold", FoldBuffer) EXCEPT
                    !.ed.line = line,
                    !.ed.sent = Len(w.buffers[FoldBuffer].folds)
                                   < Len(buffers[FoldBuffer].folds)])
    /\ counters' = [counters EXCEPT !.toggles = @ + 1]
    /\ UNCHANGED <<stdout, config>>

NextFold ==
    \/ \E ranges \in FoldingRangeSets : SetFoldingRanges(ranges)
    \/ \E line \in 0..MaxFoldLine : ToggleFold(line)

SpecFold == InitFold /\ [][NextFold]_vars

\* =====================================================================
\* Sessions whose server answers requests with JSON-RPC error responses
\* =====================================================================
\* A response that carries an error object, for a request on the wire
ErrorBodies(s) ==
    { [t |-> "body", kind |-> "response", id |-> f.id, outcome |-> "error",
       method |-> "", uri |-> ""] :
          f \in { stdin[s][i] : i \in { j \in 1..Len(stdin[s]) :
                                          stdin[s][j].kind = "request" } } }

\* The child writes the body of a frame: an error response
ServerWriteError(s) ==
    /\ PipeOpen(s)
    /\ stdout[s].wpos = "blank"
    /\ counters.tokens < MaxTokens
    /\ counters.errors < MaxErrors
    /\ \E m \in ErrorBodies(s) :
          stdout' = [stdout EXCEPT ![s].buf = Append(@, m),
                                   ![s].wpos = "start"]
    /\ counters' = [counters EXCEPT !.tokens = @ + 1, !.errors = @ + 1]
    /\ UNCHANGED <<task, command_rx, stdin, process, handle, handles, config,
                   bridge, ed, buffers>>

NextResponses ==
    \/ \E l \in Langs : MgrSpawn(l)
    \/ \E l \in Langs : LangDidOpen(l)
    \/ \E l \in Langs : LangDocumentDiagnostic(l)
    \/ \E s \in Sessions : TaskRecvCommand(s)
    \/ \E s \in Sessions : TaskRead(s)
    \/ \E s \in Sessions : ServerWrite(s)
    \/ \E s \in Sessions : ServerWriteError(s)

SpecResponses == InitManager /\ [][NextResponses]_vars

\* =====================================================================
\* Sessions whose server writes frames that cannot be read
\* =====================================================================
\* The pieces of a frame that read_message fails on, at the child's
\* position in the frame: a Content-Length line without a number, and
\* after a well-formed header a body that is no message
MalformedTokens(s) ==
    CASE stdout[s].wpos = "start" -> { [t |-> "badCL", wpos |-> "cl"] }
      [] stdout[s].wpos = "blank" ->
            { [t |-> "body", kind |-> k, id |-> -1, outcome |-> "ok",
               method |-> "", uri |-> "", wpos |-> "start"] :
                  k \in BadBodyKinds }
      [] OTHER -> {}

\* The child writes a piece that read_message fails on
ServerWriteMalformed(s) ==
    /\ PipeOpen(s)
    /\ counters.tokens < MaxTokens
    /\ counters.errors < MaxErrors
    /\ \E tok \in MalformedTokens(s) :
          stdout' = [stdout EXCEPT ![s].buf = Append(@, tok),
                                   ![s].wpos = tok.wpos]
    /\ counters' = [counters EXCEPT !.tokens = @ + 1, !.errors = @ + 1]
    /\ UNCHANGED <<task, command_rx, stdin, process, handle, handles, config,
                   bridge, ed, buffers>>

NextMalformed ==
    \/ \E l \in Langs : MgrSpawn(l)
    \/ \E l \in Langs : LangDidOpen(l)
    \/ \E l \in Langs : LangDidChange(l)
    \/ \E s \in Sessions : TaskRecvCommand(s)
    \/ \E s \in Sessions : TaskRead(s)
    \/ \E s \in Sessions : ServerWrite(s)
    \/ \E s \in Sessions : ServerWriteMalformed(s)
    \/ \E s \in Sessions : ServerCloseStdout(s)

SpecMalformed == InitManager /\ [][NextMalformed]_vars

\* =====================================================================
\* Sessions whose server sends notifications and requests of its own
\* =====================================================================
\* The diagnostics lists a publishDiagnostics notification may carry
DiagnosticLists ==
    UNION {[1..n -> {"d1", "d2"}] : n \in 0..MaxDiagnostics}

\* textDocument/publishDiagnostics for any file, with params that are well
\* formed ("ok"), absent ("none") or not PublishDiagnosticsParams ("bad")
DiagnosticsBodies ==
    { [t |-> "body", kind |-> "notification", id |-> -1, outcome |-> o,
       method |-> "textDocument/publishDiagnostics", uri |-> u,
       diagnostics |-> d] :
          o \in {"ok", "none", "bad"}, u \in RawUris, d \in DiagnosticLists }

\* What the client has no handling for: the window notifications, a
\* notification of a method it does not know, a request of the server
IgnoredBodies ==
    { [t |-> "body", kind |-> "notification", id |-> -1, outcome |-> "ok",
       method |-> m, uri |-> "", diagnostics |-> <<>>] :
          m \in {"window/showMessage", "window/logMessage", "$/progress"} }
    \cup { [t |-> "body", kind |-> "request", id |-> i, outcome |-> "ok",
            method |-> "workspace/configuration", uri |-> "",
            diagnostics |-> <<>>] : i \in 0..1 }

\* The child writes the body of a frame: a publishDiagnostics notification
ServerWriteDiagnostics(s) ==
    /\ PipeOpen(s)
    /\ stdout[s].wpos = "blank"
    /\ counters.tokens < MaxTokens
    /\ \E m \in DiagnosticsBodies :
          stdout' = [stdout EXCEPT ![s].buf = Append(@, m),
                                   ![s].wpos = "start"]
    /\ counters' = [counters EXCEPT !.tokens = @ + 1]
    /\ UNCHANGED <<task, command_rx, stdin, process, handle, handles, config,
                   bridge, ed, buffers>>

\* The child writes the body of a frame: something the client ignores
ServerWriteIgnored(s) ==
    /\ PipeOpen(s)
    /\ stdout[s].wpos = "blank"
    /\ counters.tokens < MaxTokens
    /\ counters.ignored < MaxIgnored
    /\ \E m \in IgnoredBodies :
          stdout' = [stdout EXCEPT ![s].buf = Append(@, m),
                                   ![s].wpos = "start"]
    /\ counters' = [counters EXCEPT !.tokens = @ + 1, !.ignored = @ + 1]
    /\ UNCHANGED <<task, command_rx, stdin, process, handle, handles, config,
                   bridge, ed, buffers>>

NextNotifications ==
    \/ \E l \in Langs : MgrSpawn(l)
    \/ \E l \in Langs : LangDidOpen(l)
    \/ \E l \in Langs : LangDocumentDiagnostic(l)
    \/ \E s \in Sessions : TaskRecvCommand(s)
    \/ \E s \in Sessions : TaskRead(s)
    \/ \E s \in Sessions : ServerWrite(s)
    \/ \E s \in Sessions : ServerWriteDiagnostics(s)
    \/ \E s \in Sessions : ServerWriteIgnored(s)

SpecNotifications == InitManager /\ [][NextNotifications]_vars

\* =====================================================================
\* The editor with the LSP data it caches for its buffers
\* =====================================================================
\* The editor takes the diagnostics a server published or answered for the
\* file of buffer b: they are stored under its URI, with their result id
ReceiveDiagnostics(b) ==
    /\ ed.pc = "idle"
    /\ buffers[b].open
    /\ b \notin ed.stored_diagnostics
    /\ ed' = [ed EXCEPT !.stored_diagnostics = @ \cup {b},
                        !.diagnostic_result_ids = @ \cup {b},
                        !.last = "diagnostics", !.buf = b]
    /\ UNCHANGED <<task, command_rx, stdin, stdout, process, handle, handles,
                   config, bridge, buffers, counters>>

\* The debounce of buffer b ran out: the folding-range request goes out
\* and is remembered under its request id
SendFoldingRangeRequest(b) ==
    /\ ed.pc = "idle"
    /\ b \in ed.folding_ranges_debounce
    /\ ed' = [ed EXCEPT !.folding_ranges_debounce = @ \ {b},
                        !.folding_ranges_in_flight = @ \cup {b},
                        !.pending_folding_range_requests =
                            @ \cup {[request_id |-> ed.next_lsp_request_id,
                                     buffer_id |-> b]},
                        !.next_lsp_request_id = @ + 1,
                        !.last = "folding_request", !.buf = b]
    /\ UNCHANGED <<task, command_rx, stdin, stdout, process, handle, handles,
                   config, bridge, buffers, counters>>

\* The answer to a folding-range request arrives: the ranges are stored
\* under the URI and given to the buffer
ReceiveFoldingRanges(req) ==
    /\ ed.pc = "idle"
    /\ req \in ed.pending_folding_range_requests
    /\ ed' = [ed EXCEPT !.pending_folding_range_requests = @ \ {req},
                        !.folding_ranges_in_flight = @ \ {req.buffer_id},
                        !.stored_folding_ranges = @ \cup {req.buffer_id},
                        !.last = "folding_ranges", !.buf = req.buffer_id]
    /\ buffers' = [buffers EXCEPT ![req.buffer_id].folding_ranges =
                                     {FoldingRange(0, 1)}]
    /\ UNCHANGED <<task, command_rx, stdin, stdout, process, handle, handles,
                   config, bridge, counters>>

NextCaches ==
    \/ \E b \in Paths : EdOpenFile(b)
    \/ \E b \in Paths : EdToggleOn(b)
    \/ \E b \in Paths : EdToggleOff(b)
    \/ EdDisableMark
    \/ \E b \in Paths : ReceiveDiagnostics(b)
    \/ \E b \in Paths : SendFoldingRangeRequest(b)
    \/ \E req \in ed.pending_folding_range_requests : ReceiveFoldingRanges(req)
    \/ \E s \in Sessions : TaskRecvCommand(s)

SpecCaches == Init /\ [][NextCaches]_vars

\* =====================================================================
\* The wire codec on bytes: write_message and read_message
\* =====================================================================
MaxFrames == 2

\* Option<Value> of params and result: None, or Some(a JSON object)
OptionValues == {"None", "Object"}

\* Method texts as characters; one character has a two-byte encoding
MethodTexts == {<<"m">>, <<"é">>}

JsonRpcRequest(id, method, params) ==
    [kind |-> "request", id |-> id, method |-> method, params |-> params,
     result |-> "None", error |-> "None"]

JsonRpcResponse(id, result, error) ==
    [kind |-> "response", id |-> id, method |-> <<>>, params |-> "None",
     result |-> result, error |-> error]

JsonRpcNotification(method, params) ==
    [kind |-> "notification", id |-> -1, method |-> method, params |-> params,
     result |-> "None", error |-> "None"]

JsonRpcMessages ==
    { JsonRpcRequest(id, me, p) : id \in 0..1, me \in MethodTexts,
                                  p \in OptionValues }
    \cup { JsonRpcResponse(id, r, e) : id \in 0..1, r \in OptionValues,
                                       e \in OptionValues }
    \cup { JsonRpcNotification(me, p) : me \in MethodTexts,
                                        p \in OptionValues }

Digits == <<"0", "1", "2", "3", "4", "5", "6", "7", "8", "9">>

\* format!("{}", n) of a usize / i64 that is not negative
RECURSIVE Decimal(_)
Decimal(n) ==
    IF n < 10 THEN <<Digits[n + 1]>>
    ELSE Decimal(n \div 10) \o <<Digits[(n % 10) + 1]>>

DigitValue(c) ==
    IF \E i \in 1..10 : Digits[i] = c
    THEN (CHOOSE i \in 1..10 : Digits[i] = c) - 1
    ELSE -1

\* str::parse::<usize>: -1 stands for Err
RECURSIVE parse(_)
parse(s) ==
    IF s = <<>> THEN -1
    ELSE LET d == DigitValue(s[Len(s)])
         IN IF d = -1 THEN -1
            ELSE IF Len(s) = 1 THEN d
            ELSE LET hi == parse(SubSeq(s, 1, Len(s) - 1))
                 IN IF hi = -1 THEN -1 ELSE 10 * hi + d

Whitespace == {" ", "\r", "\n"}

RECURSIVE trim(_)
trim(s) ==
    IF s = <<>> THEN s
    ELSE IF Head(s) \in Whitespace THEN trim(Tail(s))
    ELSE IF s[Len(s)] \in Whitespace THEN trim(SubSeq(s, 1, Len(s) - 1))
    ELSE s

\* String::as_bytes: the UTF-8 encoding of a text
RECURSIVE as_bytes(_)
as_bytes(text) ==
    IF text = <<>> THEN <<>>
    ELSE (IF Head(text) = "é" THEN <<"C3", "A9">> ELSE <<Head(text)>>)
         \o as_bytes(Tail(text))

\* String::from_utf8: ok is FALSE where the bytes are not UTF-8
RECURSIVE from_utf8(_)
from_utf8(bytes) ==
    IF bytes = <<>> THEN [ok |-> TRUE, text |-> <<>>]
    ELSE IF Head(bytes) = "C3"
    THEN IF Len(bytes) >= 2 /\ bytes[2] = "A9"
         THEN LET r == from_utf8(SubSeq(bytes, 3, Len(bytes)))
              IN [r EXCEPT !.text = <<"é">> \o @]
         ELSE [ok |-> FALSE, text |-> <<>>]
    ELSE IF Head(bytes) = "A9"
    THEN [ok |-> FALSE, text |-> <<>>]
    ELSE LET r == from_utf8(Tail(bytes))
         IN [r EXCEPT !.text = <<Head(bytes)>> \o @]

\* serde_json of an Option<Value>: None is written as null
ValueText(v) == IF v = "None" THEN "null" ELSE "{..}"

\* serde_json::to_string of the three message structs.  Request and
\* Notification write params always; Response skips result and error
\* that are None.
to_string(m) ==
    CASE m.kind = "request" ->
            <<"{", "jsonrpc:2.0", "id:">> \o Decimal(m.id)
            \o <<"method:", "'">> \o m.method
            \o <<"'", "params:", ValueText(m.params), "}">>
      [] m.kind = "response" ->
            <<"{", "jsonrpc:2.0", "id:">> \o Decimal(m.id)
            \o (IF m.result = "None" THEN <<>>
                ELSE <<"result:", ValueText(m.result)>>)
            \o (IF m.error = "None" THEN <<>>
                ELSE <<"error:", ValueText(m.error)>>)
            \o <<"}">>
      [] OTHER ->
            <<"{", "jsonrpc:2.0", "method:", "'">> \o m.method
            \o <<"'", "params:", ValueText(m.params), "}">>

\* The fields serde_json finds in an object; a key with the value null
\* and a missing key both leave an Option field None
NoFields ==
    [bad |-> FALSE, jsonrpc |-> FALSE, id |-> -1, has_method |-> FALSE,
     method |-> <<>>, params |-> "None", result |-> "None", error |-> "None"]

OptionOf(text) == IF text = "null" THEN "None" ELSE "Object"

\* Position of the first closing quote of a string, 0 if there is none
ClosingQuote(text) ==
    IF \E i \in 1..Len(text) : text[i] = "'"
    THEN CHOOSE i \in 1..Len(text) :
            text[i] = "'" /\ \A j \in 1..(i - 1) : text[j] # "'"
    ELSE 0

RECURSIVE ParseFields(_, _)
ParseFields(text, f) ==
    LET Bad == [f EXCEPT !.bad = TRUE]
        n == Len(text)
    IN IF text = <<>> THEN Bad
       ELSE IF text = <<"}">> THEN f
       ELSE IF Head(text) = "jsonrpc:2.0"
       THEN ParseFields(Tail(text), [f EXCEPT !.jsonrpc = TRUE])
       ELSE IF n < 2 THEN Bad
       ELSE IF Head(text) = "id:"
       THEN IF DigitValue(text[2]) = -1 THEN Bad
            ELSE ParseFields(SubSeq(text, 3, n),
                             [f EXCEPT !.id = DigitValue(text[2])])
       ELSE IF Head(text) = "method:"
       THEN LET rest == SubSeq(text, 3, n)
                q == ClosingQuote(rest)
            IN IF text[2] # "'" \/ q = 0 THEN Bad
               ELSE ParseFields(SubSeq(rest, q + 1, Len(rest)),
                                [f EXCEPT !.has_method = TRUE,
                                          !.method = SubSeq(rest, 1, q - 1)])
       ELSE IF text[2] \notin {"null", "{..}"} THEN Bad
       ELSE IF Head(text) = "params:"
       THEN ParseFields(SubSeq(text, 3, n),
                        [f EXCEPT !.params = OptionOf(text[2])])
       ELSE IF Head(text) = "result:"
       THEN ParseFields(SubSeq(text, 3, n),
                        [f EXCEPT !.result = OptionOf(text[2])])
       ELSE IF Head(text) = "error:"
       THEN ParseFields(SubSeq(text, 3, n),
                        [f EXCEPT !.error = OptionOf(text[2])])
       ELSE Bad

\* serde_json::from_str::<JsonRpcMessage>: the untagged enum tries Request,
\* then Response, then Notification, and takes the first one whose
\* required fields are there
from_str(text) ==
    IF text = <<>> \/ Head(text) # "{"
    THEN [ok |-> FALSE, msg |-> <<>>]
    ELSE LET f == ParseFields(Tail(text), NoFields)
         IN IF f.bad THEN [ok |-> FALSE, msg |-> <<>>]
            ELSE IF f.jsonrpc /\ f.id >= 0 /\ f.has_method
            THEN [ok |-> TRUE,
                  msg |-> <<JsonRpcRequest(f.id, f.method, f.params)>>]
            ELSE IF f.jsonrpc /\ f.id >= 0
            THEN [ok |-> TRUE,
                  msg |-> <<JsonRpcResponse(f.id, f.result, f.error)>>]
            ELSE IF f.jsonrpc /\ f.has_method
            THEN [ok |-> TRUE,
                  msg |-> <<JsonRpcNotification(f.method, f.params)>>]
            ELSE [ok |-> FALSE, msg |-> <<>>]

\* Variant of write_message: the header carries the number of characters
\* of the JSON text
write_message_counts_chars(m) ==
    LET json == to_string(m)
    IN <<"Content-Length: ">> \o Decimal(Len(json))
       \o <<"\r", "\n", "\r", "\n">> \o as_bytes(json)

\* LspTask::write_message: the bytes given to write_all
write_message(m) ==
    LET json == as_bytes(to_string(m))
    IN <<"Content-Length: ">> \o Decimal(Len(json))
       \o <<"\r", "\n", "\r", "\n">> \o json

\* read_line: the bytes up to and with the first "\n", all of them when
\* the stream ends before one
read_line(stream) ==
    LET n == IF \E i \in 1..Len(stream) : stream[i] = "\n"
             THEN CHOOSE i \in 1..Len(stream) :
                     stream[i] = "\n" /\ \A j \in 1..(i - 1) : stream[j] # "\n"
             ELSE Len(stream)
    IN [line |-> SubSeq(stream, 1, n),
        rest |-> SubSeq(stream, n + 1, Len(stream))]

ReadError == [ok |-> FALSE, msg |-> <<>>, rest |-> <<>>]

\* The body part of read_message: read_exact, from_utf8, from_str
read_content(stream, content_length) ==
    IF Len(stream) < content_length THEN ReadError
    ELSE LET json == from_utf8(SubSeq(stream, 1, content_length))
             m == from_str(json.text)
         IN IF ~json.ok \/ ~m.ok THEN ReadError
            ELSE [ok |-> TRUE, msg |-> m.msg,
                  rest |-> SubSeq(stream, content_length + 1, Len(stream))]

\* LspTask::read_message on a stream that holds all its bytes:
\* content_length -1 is None
RECURSIVE read_headers(_, _)
read_headers(stream, content_length) ==
    LET l == read_line(stream)
    IN IF l.line = <<>> THEN ReadError
       ELSE IF l.line = <<"\r", "\n">>
       THEN IF content_length = -1 THEN ReadError
            ELSE read_content(l.rest, content_length)
       ELSE IF Head(l.line) = "Content-Length: "
       THEN LET n == parse(trim(Tail(l.line)))
            IN IF n = -1 THEN ReadError ELSE read_headers(l.rest, n)
       ELSE read_headers(l.rest, content_length)

read_message_bytes(stream) == read_headers(stream, -1)

\* The frames of a message on the wire: as write_message writes it, and
\* with another header line before or after the Content-Length line
OtherHeader == <<"Content-Type: ", "x", "\r", "\n">>

Frames(m) ==
    LET w == write_message(m)
        cl == read_line(w)
    IN {w, OtherHeader \o w, cl.line \o OtherHeader \o cl.rest}

InitFraming == InitManager

\* A frame is written into the pipe
WriteFrame ==
    /\ Len(ed.frames_written) < MaxFrames
    /\ \E m \in JsonRpcMessages :
          /\ stdin' = [stdin EXCEPT ![1] = @ \o write_message(m)]
          /\ ed' = [ed EXCEPT !.frames_written = Append(@, m)]
    /\ UNCHANGED <<task, command_rx, stdout, process, handle, handles, config,
                   bridge, buffers, counters>>

\* A frame with a header line besides Content-Length is written
WriteFrameWithHeaders ==
    /\ Len(ed.frames_written) < MaxFrames
    /\ \E m \in JsonRpcMessages :
          /\ \E f \in Frames(m) \ {write_message(m)} :
                stdin' = [stdin EXCEPT ![1] = @ \o f]
          /\ ed' = [ed EXCEPT !.frames_written = Append(@, m)]
    /\ UNCHANGED <<task, command_rx, stdout, process, handle, handles, config,
                   bridge, buffers, counters>>

\* read_message is called on the pipe
ReadFrame ==
    /\ stdin[1] # <<>>
    /\ LET r == read_message_bytes(stdin[1])
       IN /\ stdin' = [stdin EXCEPT ![1] = r.rest]
          /\ ed' = IF r.ok
                   THEN [ed EXCEPT !.frames_read = @ \o r.msg]
                   ELSE [ed EXCEPT !.last = "read_error"]
    /\ UNCHANGED <<task, command_rx, stdout, process, handle, handles, config,
                   bridge, buffers, counters>>

NextFraming ==
    \/ WriteFrame
    \/ WriteFrameWithHeaders
    \/ ReadFrame

SpecFraming == InitFraming /\ [][NextFraming]_vars

\* =====================================================================
\* Properties
\* =====================================================================
\* The commands a step of the editor thread appended to the queue of
\* session s
Issued(s) == SubSeq(command_rx'[s], Len(command_rx[s]) + 1, Len(command_rx'[s]))

DocCmds == {"DidOpen", "DidChange", "DidClose"}

\* Positions of the commands of kind `cmd` for `uri` in a sequence of commands
CmdsFor(q, cmd, uri) == { i \in DOMAIN q : q[i].cmd = cmd /\ q[i].uri = uri }

\* The handle of session s takes document commands
Accepting(s) == s # NoSession /\ handle[s].initialized /\ SendOk(s)

EnableStep(b) ==
    ed.pc = "idle" /\ ~buffers[b].lsp_enabled /\ buffers'[b].lsp_enabled

DisableStep(b) ==
    ed.pc = "idle" /\ ed'.pc = "disable_mark" /\ ed'.buf = b

RestartStep(l) ==
    /\ ed.pc = "idle" /\ ed'.pc = "idle" /\ ed'.last = "restart"
    /\ handles'[l] # handles[l]
    /\ handles'[l] # NoSession

\* ------------------------------------------------------------------ C1
\* C1: enabling LSP for a buffer after a disable emits exactly one didOpen
\* for the buffer's URI to the language's session, also when that session
\* was already running, and its text is the buffer's content at that moment.
C1_EnableEmitsOneDidOpen ==
    [][\A b \in Paths :
         (EnableStep(b) /\ handles'[LanguageOf(b)] # NoSession) =>
            LET new == Issued(handles'[LanguageOf(b)])
                opens == CmdsFor(new, "DidOpen", b)
            IN /\ Cardinality(opens) = 1
               /\ \A i \in opens : new[i].text = buffers'[b].text]_vars

\* ------------------------------------------------------------------ C2
\* C2 (amended): disabling LSP for an enabled buffer whose language has a
\* session handle that takes commands sends exactly one didClose for the
\* buffer's URI and nothing else, the buffer's lsp_enabled flag is still
\* true once that didClose is sent and is cleared only by the rest of the
\* same disable; a disable without such a handle sends nothing; and no
\* other step sends a didClose.  So the number of didClose messages equals
\* the number of disables made while the language has a session handle.
C2_DisableSendsDidCloseFirst ==
    [][\A b \in Paths :
         /\ DisableStep(b) =>
               /\ buffers[b].lsp_enabled /\ buffers'[b].lsp_enabled
               /\ ed'.sent = Accepting(handles[LanguageOf(b)])
               /\ \A s \in Sessions :
                     Issued(s) = IF s = handles[LanguageOf(b)] /\ Accepting(s)
                                 THEN <<CmdDidClose(b)>>
                                 ELSE <<>>
         /\ (buffers[b].lsp_enabled /\ ~buffers'[b].lsp_enabled) =>
               ed.pc = "disable_mark" /\ ed.buf = b
         /\ (\E s \in Sessions : CmdsFor(Issued(s), "DidClose", b) # {}) =>
               DisableStep(b)]_vars

\* A third toggle: the second disable of a buffer, its didClose sent and
\* the flag not yet cleared
C2_Witness ==
    /\ ed.pc = "disable_mark" /\ ed.sent
    /\ counters.toggles = 3
    /\ buffers[ed.buf].lsp_enabled
    /\ \E s \in Sessions : CmdsFor(command_rx[s], "DidClose", ed.buf) # {}

\* C2 as stated: every disable sends exactly one didClose (the number of
\* didClose messages equals the number of disables)
C2_EveryDisableSendsDidClose ==
    [][\A b \in Paths :
         DisableStep(b) =>
            \E s \in Sessions : Cardinality(CmdsFor(Issued(s), "DidClose", b)) = 1]_vars

C6_RestartReopensEveryBuffer ==
    [][\A l \in Langs :
         RestartStep(l) =>
            \A b \in Paths :
               (buffers'[b].open /\ LanguageOf(b) = l) =>
                  LET new == command_rx'[handles'[l]]
                      opens == CmdsFor(new, "DidOpen", b)
                  IN /\ Cardinality(opens) = 1
                     /\ \A i \in opens : new[i].text = buffers'[b].text
                     /\ HandleId(handles'[l]) \in buffers'[b].lsp_opened_with]_vars

\* ------------------------------------------------------------------ C3
\* The document frames for a path among the frames written to session s
DocMethods ==
    {"textDocument/didOpen", "textDocument/didChange", "textDocument/didClose"}

DocFrames(s, p) ==
    SelectSeq(stdin[s], LAMBDA f : f.uri = p /\ f.method \in DocMethods)

\* The session is Ready: initialized, its task running, its child taking
\* the frames
Ready(s) == task[s].pc = "select" /\ task[s].initialized /\ CanWrite(s)

\* C3: for every path, a didOpen on the wire has version 1 and every
\* didChange that follows a didOpen or a didChange of the path has the
\* version after it, so that one DidOpen and N DidChange put 1, 2, ..., N+1
\* on the wire in that order; and in a Ready session the version table
\* entry of the path is the version of the last such frame.
C3_VersionsCountFromOne ==
    \A s \in Sessions, p \in Paths :
       LET L == DocFrames(s, p)
       IN /\ \A i \in DOMAIN L :
                /\ L[i].method = "textDocument/didOpen" => L[i].version = 1
                /\ (/\ L[i].method = "textDocument/didChange"
                    /\ i > 1
                    /\ L[i - 1].method # "textDocument/didClose")
                      => L[i].version = L[i - 1].version + 1
          /\ (Ready(s) /\ L # <<>> /\ L[Len(L)].method # "textDocument/didClose")
                => /\ p \in DOMAIN task[s].document_versions
                   /\ task[s].document_versions[p] = L[Len(L)].version

\* A didOpen and two didChange of one path on the wire, the table at 3
C3_Witness ==
    \E s \in Sessions, p \in Paths :
       LET L == DocFrames(s, p)
       IN /\ Ready(s)
          /\ Len(L) = 3
          /\ L[1].method = "textDocument/didOpen"
          /\ L[2].method = "textDocument/didChange"
          /\ L[3].method = "textDocument/didChange"
          /\ L[3].version = 3
          /\ task[s].document_versions[p] = 3

\* ------------------------------------------------------------------ C4
\* The command arm of a Ready session s takes a DidOpen
TakesDidOpen(s) ==
    /\ Ready(s)
    /\ command_rx[s] # <<>>
    /\ Head(command_rx[s]).cmd = "DidOpen"
    /\ command_rx'[s] = Tail(command_rx[s])
    /\ task'[s].pc = "select"

Answered(s, method) ==
    /\ task[s].pc = "await_reply"
    /\ \E i \in DOMAIN stdin[s] :
          /\ stdin[s][i].kind = "request"
          /\ stdin[s][i].method = method
          /\ stdin[s][i].id = task[s].awaiting
    /\ Len(stdout[s].buf) >= 3
    /\ stdout[s].buf[1].t = "CL"
    /\ stdout[s].buf[2].t = "blank"
    /\ stdout[s].buf[3].t = "body"
    /\ stdout[s].buf[3].kind = "response"
    /\ stdout[s].buf[3].id = task[s].awaiting
    /\ stdout[s].buf[3].outcome = "result"

\* C7: once the child has answered the `initialize` request with a result
\* the session goes on to Ready: the task that sent the request takes its
\* next step (reads the answer, stores the capabilities, writes
\* `initialized`, pushes LspInitialized, replies Ok to initialize()).
C7_InitializeAnswerIsTaken ==
    \A s \in Sessions :
       Answered(s, "initialize") =>
          \/ task[s].initialized
          \/ ENABLED (TaskRead(s) \/ TaskRecvCommand(s))

\* ------------------------------------------------------------------ C8
\* C8: a running session task services both inputs: a queued command is
\* dequeued and an inbound piece is read whatever the state of the other
\* input, also while a request sent to the server has no reply yet.
C8_BothInputsServiced ==
    \A s \in Sessions :
       task[s].pc \in {"select", "await_reply"} =>
          /\ command_rx[s] # <<>> => ENABLED TaskRecvCommand(s)
          /\ stdout[s].buf # <<>> => ENABLED TaskRead(s)

\* ------------------------------------------------------------------ C9
\* C9: when the child has closed its stdout and the task has consumed what
\* was written before, the read arm of the running task completes (with
\* the error that pushes one LspError and ends the task), wherever in a
\* frame the stream ended.
C9_EndOfStreamIsReported ==
    \A s \in Sessions :
       (task[s].pc = "select" /\ stdout[s].eof /\ stdout[s].buf = <<>>) =>
          ENABLED TaskRead(s)

\* ----------------------------------------------------------------- C10
\* C10: an answer of the manager to a spawn request for a language is never
\* the handle of a session whose task has terminated (with a transport
\* error): such a request creates a new session.
C10_NoDeadHandleAnswered ==
    [][\A l \in Langs :
         (/\ ed.pc = "idle" /\ ed'.pc = "idle"
          /\ ed'.language = l
          /\ ed'.ret # ed.ret
          /\ ed'.ret # NoSession)
            => task'[ed'.ret].pc # "exited"]_vars

\* ----------------------------------------------------------------- C11
\* The sessions ever spawned for language l (each with its child process)
SpawnedFor(l) ==
    { s \in Sessions : task[s].pc # "unspawned" /\ task[s].language = l }

\* C11: for a language whose session the registry holds, whatever spawn
\* requests follow, each is answered with the handle the registry holds, the
\* registry keeps that one handle, and the one session of the language stays
\* the only one ever spawned for it.
C11_RunningLanguageSpawnsOnce ==
    [][\A l \in Langs :
         handles[l] # NoSession =>
            /\ handles'[l] = handles[l]
            /\ Cardinality(SpawnedFor(l)) = 1
            /\ SpawnedFor(l)' = SpawnedFor(l)
            /\ (ed'.language = l /\ ed'.ret # ed.ret) => ed'.ret = handles[l]
            /\ ed'.pc = "idle"]_vars

C11_Witness ==
    \E l \in Langs :
       /\ handles[l] # NoSession
       /\ ed.language = l
       /\ ed.ret = handles[l]
       /\ task[handles[l]].pc = "select"
       /\ process[handles[l]] = "running"
       /\ Cardinality(SpawnedFor(l)) = 1

\* ----------------------------------------------------------------- C12
\* C12: a session is spawned for a language only when its configuration
\* entry exists and is enabled and, unless the step is an explicit user
\* action (manual enable of a buffer, manual restart), auto_start is set;
\* a manual enable made for a configured, enabled language without a session
\* spawns one whatever auto_start says; without an enabled entry nothing is
\* spawned and the registry is unchanged.
C12_SpawnGuard ==
    [][\A l \in Langs :
         LET c == config.lsp[l]
             spawned == SpawnedFor(l)' # SpawnedFor(l)
         IN /\ spawned =>
                  /\ c.present /\ c.enabled
                  /\ c.auto_start \/ ed'.last \in {"enable", "restart"}
            /\ \A b \in Paths :
                  (/\ EnableStep(b) /\ LanguageOf(b) = l
                   /\ c.present /\ c.enabled
                   /\ handles[l] = NoSession)
                     => spawned /\ handles'[l] # NoSession
            /\ ~(c.present /\ c.enabled) =>
                  ~spawned /\ handles'[l] = handles[l]]_vars

\* ----------------------------------------------------------------- C13
\* C13: a DidOpen or DidChange issued before the session is initialized
\* fails: the call on the handle answers Err at once and enqueues nothing,
\* with the task, the wire and the version table as they were; and the task
\* handlers, given such a command while not initialized, write no frame and
\* leave the task (its version table included) unchanged.
C13_NotInitializedRejected ==
    [][/\ (counters'.calls = counters.calls + 1
           /\ ~handle[ed.sid].initialized)
             => /\ ~ed'.sent
                /\ command_rx' = command_rx
                /\ stdin' = stdin
                /\ task' = task
       /\ \A s \in Sessions, uri \in Paths, ok \in BOOLEAN :
             ~task[s].initialized =>
                /\ handle_did_open(task[s], ok, uri, <<"x">>, task[s].language)
                     = Outcome(task[s], <<>>)
                /\ handle_did_change(task[s], ok, uri, <<"x">>)
                     = Outcome(task[s], <<>>)]_vars

C13_Witness ==
    /\ ed.pc = "init_send"
    /\ ed.last = "did_change"
    /\ ~ed.sent
    /\ counters.calls >= 2
    /\ ~handle[ed.sid].initialized
    /\ task[ed.sid].pc = "select"
    /\ process[ed.sid] = "running"
    /\ command_rx[ed.sid] = <<>>
    /\ stdin[ed.sid] = <<>>

\* ----------------------------------------------------------------- C14
\* The task of session s dequeues a DidChange for path p
TakesDidChange(s, p) ==
    /\ task[s].pc = "select"
    /\ command_rx[s] # <<>>
    /\ Head(command_rx[s]).cmd = "DidChange"
    /\ Head(command_rx[s]).uri = p
    /\ command_rx'[s] = Tail(command_rx[s])

\* C14: an initialized session that takes a DidChange for a path without an
\* entry in its version table writes no didChange frame and fabricates no
\* version: the table still has no entry for the path.
C14_DidChangeNeedsEntry ==
    [][\A s \in Sessions, p \in Paths :
         (/\ TakesDidChange(s, p)
          /\ task[s].initialized
          /\ p \notin DOMAIN task[s].document_versions)
            => /\ stdin'[s] = stdin[s]
               /\ p \notin DOMAIN task'[s].document_versions]_vars

\* ----------------------------------------------------------------- C15
\* Positions of the frames of a method on the wire of session s
FramesOf(s, method) == { i \in DOMAIN stdin[s] : stdin[s][i].method = method }

\* C15: a Ready session that has taken a Shutdown and whose server has
\* answered the `shutdown` request goes on: the task takes its next step
\* (reads the answer, writes `exit`, kills the child, ends); and an `exit`
\* notification is on the wire only after a `shutdown` request.
C15_ShutdownCompletes ==
    \A s \in Sessions :
       /\ \A i \in FramesOf(s, "exit") :
             \E j \in FramesOf(s, "shutdown") : j < i
       /\ Answered(s, "shutdown") =>
             ENABLED (TaskRead(s) \/ TaskRecvCommand(s))

\* ----------------------------------------------------------------- C16
\* The task of session s has taken a Shutdown and awaits the answer to its
\* `shutdown` request
ShuttingDown(s) ==
    /\ task[s].pc = "await_reply"
    /\ \E i \in FramesOf(s, "shutdown") : stdin[s][i].id = task[s].awaiting

\* C16: a Shutdown sent to a session that is already shutting down or has
\* terminated changes nothing: no session ever has a second `shutdown`
\* request or a second `exit` on its wire, a terminated session keeps its
\* task, queue, wire and process whatever is sent to it, and a session that
\* is shutting down keeps its task, wire and process and dequeues none of
\* the Shutdowns sent after the one it took.
C16_ShutdownIdempotent ==
    [][\A s \in Sessions :
         /\ Cardinality(FramesOf(s, "shutdown")) <= 1
         /\ Cardinality(FramesOf(s, "exit")) <= 1
         /\ task[s].pc = "exited" =>
               /\ task'[s] = task[s]
               /\ command_rx'[s] = command_rx[s]
               /\ stdin'[s] = stdin[s]
               /\ process'[s] = process[s]
         /\ ShuttingDown(s) =>
               /\ task'[s] = task[s]
               /\ Len(command_rx'[s]) >= Len(command_rx[s])
               /\ stdin'[s] = stdin[s]
               /\ process'[s] \in {process[s], "gone"}]_vars

\* The second Shutdown (that of the handle's Drop) waits behind a task that
\* took the first, beside a session that had terminated before shutdown_all
C16_Witness ==
    \E s1, s2 \in Sessions :
       /\ ed.last = "shutdown_all"
       /\ ~ed.sent
       /\ task[s1].pc = "exited"
       /\ ~handle[s1].live
       /\ ShuttingDown(s2)
       /\ command_rx[s2] = <<CmdShutdown>>
       /\ Cardinality(FramesOf(s2, "shutdown")) = 1

\* ----------------------------------------------------------------- C17
\* C17: dropping a handle sends Shutdown to its session, and the child of a
\* session whose handle was dropped gets terminated: while that child still
\* runs, the task that owns it has the Shutdown before it or can take a
\* step towards the end of its run loop.
C17_DroppedHandleEndsChild ==
    \A s \in Sessions :
       (~handle[s].live /\ process[s] = "running") =>
          /\ task[s].pc = "select" =>
                /\ command_rx[s] # <<>>
                /\ command_rx[s][Len(command_rx[s])] = CmdShutdown
          /\ ENABLED (TaskRecvCommand(s) \/ TaskRead(s))

\* ----------------------------------------------------------------- C18
\* A step of shutdown_all (called, or run by the manager's Drop)
ShutdownAllStep ==
    /\ ed.pc = "idle"
    /\ ed'.last \in {"shutdown_all", "drop"}
    /\ task' = task /\ stdout' = stdout /\ process' = process

\* C18: shutdown_all attempts the shutdown of every session of the registry,
\* whether or not the attempt for another one fails, and leaves the registry
\* empty: each registered session whose task still receives gets the
\* Shutdown of the loop and that of its dropped handle, a registered session
\* whose task has ended gets nothing, every handle is dropped; the same on
\* the manager's Drop.
C18_ShutdownAllCoversRegistry ==
    [][ShutdownAllStep =>
         \A l \in Langs :
            /\ handles'[l] = NoSession
            /\ handles[l] # NoSession =>
                  LET s == handles[l]
                  IN /\ ~handle'[s].live
                     /\ command_rx'[s] =
                           IF SendOk(s)
                           THEN command_rx[s] \o <<CmdShutdown, CmdShutdown>>
                           ELSE command_rx[s]]_vars

C18_Witness ==
    \E s1, s2 \in Sessions :
       /\ ed.last \in {"shutdown_all", "drop"}
       /\ ~ed.sent
       /\ \A l \in Langs : handles[l] = NoSession
       /\ task[s1].pc = "exited" /\ ~handle[s1].live
       /\ task[s2].pc = "select" /\ ~handle[s2].live
       /\ command_rx[s2] = <<CmdShutdown, CmdShutdown>>

\* ----------------------------------------------------------------- C19
\* The JSON-RPC method a command is written as
MethodOf(cmd) ==
    CASE cmd = "DidOpen" -> "textDocument/didOpen"
      [] cmd = "DidChange" -> "textDocument/didChange"
      [] cmd = "DidClose" -> "textDocument/didClose"
      [] cmd = "DocumentDiagnostic" -> "textDocument/diagnostic"
      [] cmd = "InlayHints" -> "textDocument/inlayHint"
      [] cmd = "Initialize" -> "initialize"
      [] OTHER -> "shutdown"

\* The frames a step appended to the wire of session s
Written(s) == SubSeq(stdin'[s], Len(stdin[s]) + 1, Len(stdin'[s]))

\* C19: with a session per language, a call through the handle of one
\* language reaches the queue of that language's session only and changes
\* no task and no wire; a step that changes the task or the wire of a
\* session leaves the task, queue and wire of every other session alone;
\* and every frame a session writes is the frame of the command at the head
\* of its own queue.
C19_SessionsIsolated ==
    [][/\ \A l \in Langs :
             (counters'.calls = counters.calls + 1 /\ ed'.language = l) =>
                /\ task' = task
                /\ stdin' = stdin
                /\ \A s \in Sessions \ {handles[l]} :
                      command_rx'[s] = command_rx[s]
       /\ \A s \in Sessions :
             (task'[s] # task[s] \/ stdin'[s] # stdin[s]) =>
                \A o \in Sessions \ {s} :
                   /\ task'[o] = task[o]
                   /\ stdin'[o] = stdin[o]
                   /\ command_rx'[o] = command_rx[o]
       /\ \A s \in Sessions :
             (task[s].pc = "select" /\ stdin'[s] # stdin[s]) =>
                /\ command_rx[s] # <<>>
                /\ command_rx'[s] = Tail(command_rx[s])
                /\ Len(Written(s)) = 1
                /\ Written(s)[1].method = MethodOf(Head(command_rx[s]).cmd)
                /\ Written(s)[1].uri = Head(command_rx[s]).uri]_vars

\* Both sessions Ready; rust was sent a didOpen, a didChange and a
\* diagnostic request and wrote them, python was sent nothing and wrote
\* nothing
C19_Witness ==
    LET a == handles["rust"]
        b == handles["python"]
    IN /\ a # NoSession /\ b # NoSession
       /\ task[a].pc = "select" /\ task[b].pc = "select"
       /\ Len(stdin[a]) = 5
       /\ task[a].document_versions = [q \in {"a.rs"} |-> 2]
       /\ task[a].pending = {1}
       /\ task[a].next_id = 2
       /\ Len(stdin[b]) = 2
       /\ task[b].document_versions = [q \in {} |-> 0]
       /\ task[b].pending = {}
       /\ task[b].next_id = 1

\* ----------------------------------------------------------------- C20
\* The task of session s reads the body of a frame, and the body is a
\* response
ReadsResponse(s) ==
    /\ task[s].pc = "select"
    /\ task[s].body
    /\ stdout[s].buf # <<>>
    /\ Head(stdout[s].buf).t = "body"
    /\ Head(stdout[s].buf).kind = "response"
    /\ stdout'[s].buf = Tail(stdout[s].buf)
    /\ command_rx'[s] = command_rx[s]

\* C20: a response read by a session removes from the ledger the entry of
\* its id and no other; with no such entry the ledger stays as it is; in
\* both cases nothing else of the session changes, no error is pushed and
\* the session goes on running.
C20_ResponseResolvesItsEntry ==
    [][\A s \in Sessions :
         ReadsResponse(s) =>
            LET id == Head(stdout[s].buf).id
            IN /\ task'[s].pending = task[s].pending \ {id}
               /\ id \notin task[s].pending => task'[s].pending = task[s].pending
               /\ [task'[s] EXCEPT !.pending = task[s].pending]
                     = ReaderReset(task[s])
               /\ task'[s].pc = "select"
               /\ bridge' = bridge
               /\ process' = process
               /\ stdin' = stdin]_vars

\* A diagnostic request (id 1) was registered, and the session has read
\* the response to the long-answered initialize request (id 0), which has
\* no entry, and goes on with the entry of id 1 in place
C20_Witness ==
    \E s \in Sessions :
       /\ task[s].pc = "select"
       /\ task[s].pending = {1}
       /\ task[s].next_id = 2
       /\ counters.tokens = 3
       /\ stdout[s].buf = <<>>
       /\ stdout[s].wpos = "start"
       /\ ~task[s].body
       /\ task[s].content_length = "None"
       /\ bridge = <<LspInitialized(task[s].language)>>

\* ----------------------------------------------------------------- C21
\* What the calls of try_recv_all have taken out of the channel so far
Taken ==
    ed.returned \o (IF ed.pc = "try_recv_all" THEN ed.messages ELSE <<>>)

\* C21: every message sent into the bridge, through whichever clone of the
\* sender, is handed out by exactly one call of try_recv_all and in the
\* order of the sends: what the calls have taken followed by what is still
\* in the channel is the sequence of all messages sent, each once; and a
\* call of try_recv_all can always take its next step (it never waits).
C21_BridgeDeliversOnceInOrder ==
    /\ Len(Taken \o bridge) = counters.calls
    /\ \A i \in 1..Len(Taken \o bridge) : (Taken \o bridge)[i].uri[2] = i
    /\ ed.pc = "try_recv_all" => ENABLED TryRecvAllStep

\* ----------------------------------------------------------------- C22
\* C22: once the task of a session has exited, every command issued through
\* its handle answers Err at once: did_open and did_change (and the other
\* document calls) enqueue nothing and report failure, the send of
\* initialize and of shutdown fails, and nothing is added to the closed
\* queue for a call to wait on.
C22_TerminatedHandleFailsFast ==
    [][/\ \A s \in Sessions :
             task[s].pc = "exited" =>
                /\ command_rx[s] = <<>>
                /\ ~SendOk(s)
                /\ shutdown(command_rx, s) = command_rx
                /\ \A uri \in Paths :
                      /\ did_open(World, s, uri, <<"x">>, task[s].language)
                            = [w |-> World, ok |-> FALSE]
                      /\ did_change(World, s, uri, <<"x">>)
                            = [w |-> World, ok |-> FALSE]
       /\ (/\ counters'.calls = counters.calls + 1
           /\ task[handles[ed'.language]].pc = "exited")
             => /\ ~ed'.sent
                /\ command_rx' = command_rx
                /\ ed'.pc = "idle"]_vars

C22_Witness ==
    \E l \in Langs :
       /\ handles[l] # NoSession
       /\ task[handles[l]].pc = "exited"
       /\ handle[handles[l]].initialized
       /\ ed.language = l
       /\ ed.last = "did_change"
       /\ ~ed.sent
       /\ counters.calls >= 2
       /\ command_rx[handles[l]] = <<>>

\* ----------------------------------------------------------------- C23
\* Session s was sent a DidOpen for buffer b: the command is in its queue
\* or its frame is on its wire
WasSentDidOpen(s, b) ==
    \/ CmdsFor(command_rx[s], "DidOpen", b) # {}
    \/ \E i \in DOMAIN stdin[s] :
          stdin[s][i].method = "textDocument/didOpen" /\ stdin[s][i].uri = b

C24_CollapsedHeaderExpands ==
    [][\A line \in 0..MaxFoldLine :
         (ToggleFold(line)
          /\ line \in collapsed_headers(buffers[FoldBuffer]))
         => LET st == buffers[FoldBuffer]
                new == buffers'[FoldBuffer]
                gone == {i \in DOMAIN st.folds :
                           HeaderIs(st, st.folds[i], line)}
            IN /\ line \notin collapsed_headers(new)
               /\ resolved_ranges(new)
                    = {r \in resolved_ranges(st) : r.header_line # line}
               /\ gone # {}
               /\ \A i \in gone :
                     /\ get_position(new.marker_list,
                                     st.folds[i].start_marker) = NoOffset
                     /\ get_position(new.marker_list,
                                     st.folds[i].end_marker) = NoOffset
               /\ Cardinality(new.marker_list)
                    = Cardinality(st.marker_list) - 2 * Cardinality(gone)]_vars

\* A fold was collapsed, the folding ranges were then emptied, and the
\* toggle on its header line took it out: nothing is collapsed any more
C24_Witness ==
    /\ ed.last = "toggle_fold"
    /\ ed.sent
    /\ buffers[FoldBuffer].folding_ranges = {}
    /\ buffers[FoldBuffer].folds = <<>>
    /\ buffers[FoldBuffer].marker_list = {}

\* The buffer after toggle_fold_at_line(FoldBuffer, line) was called once
\* and twice in the current state, nothing else happening in between
ToggledOnce(line) ==
    toggle_fold_at_line(World, FoldBuffer, line).buffers[FoldBuffer]

ToggledTwice(line) ==
    toggle_fold_at_line(toggle_fold_at_line(World, FoldBuffer, line),
                        FoldBuffer, line).buffers[FoldBuffer]

\* C25 as stated: for every line that starts a folding range ending on a
\* later line, the collapsed folds after two consecutive calls of
\* toggle_fold_at_line on the line are the collapsed folds before the
\* first.
C25_DoubleToggleRestores ==
    \A line \in 0..MaxFoldLine :
       ExactRanges(buffers[FoldBuffer], line) # {}
       => resolved_ranges(ToggledTwice(line))
            = resolved_ranges(buffers[FoldBuffer])

\* C25 amended: for every line that starts a folding range ending on a
\* later line and is not the header of a collapsed fold, the collapsed
\* folds after two consecutive calls of toggle_fold_at_line on the line
\* are the collapsed folds before the first; the first call collapses the
\* lines after it when the buffer has bytes there, and after the second no
\* fold is collapsed under the line.
C25_DoubleToggleFromExpanded ==
    \A line \in 0..MaxFoldLine :
       LET st == buffers[FoldBuffer]
           start_byte == line_start_offset(st.text, line + 1)
       IN (ExactRanges(st, line) # {} /\ line \notin collapsed_headers(st))
          => /\ resolved_ranges(ToggledTwice(line)) = resolved_ranges(st)
             /\ line \notin collapsed_headers(ToggledTwice(line))
             /\ (start_byte # NoOffset /\ start_byte < Len(st.text))
                => /\ line \in collapsed_headers(ToggledOnce(line))
                   /\ resolved_ranges(ToggledOnce(line))
                        # resolved_ranges(st)

\* Two calls in a row on a line that starts a folding range: the first
\* collapsed a fold and the second took it out again
C25_Witness ==
    /\ ed.last = "toggle_fold"
    /\ ed.sent
    /\ counters.toggles = 2
    /\ ExactRanges(buffers[FoldBuffer], ed.line) # {}
    /\ buffers[FoldBuffer].folds = <<>>

\* C26: every frame the server writes is passed to handle_message, once
\* and in order, whatever commands arrive in between: whenever the read
\* arm consumes the body of a frame from the head of the stream, the task
\* has the frame's header (it is reading that body) and the step is
\* handle_message applied to that frame.
C26_EveryFrameIsHandled ==
    [][\A s \in Sessions :
         (/\ TaskRead(s)
          /\ stdout[s].buf # <<>>
          /\ Head(stdout[s].buf).t = "body")
         => /\ task[s].body
            /\ task'[s] = handle_message(ReaderReset(task[s]),
                                         Head(stdout[s].buf)).task
            /\ bridge' = bridge \o handle_message(ReaderReset(task[s]),
                                                  Head(stdout[s].buf)).sent]_vars

\* ----------------------------------------------------------------- C27
\* C27: within one session the commands are processed in the order they
\* were enqueued: a call appends its command behind the commands already
\* queued, the task takes the command at the head and no other, the wire
\* only grows at its end, and a didOpen or didChange frame written to it
\* is the frame of the command taken at the head.  So the didOpen and
\* didChange frames on the wire are in the relative order of the calls.
C27_CommandsInEnqueueOrder ==
    [][\A s \in Sessions :
         /\ command_rx'[s] # command_rx[s] =>
               \/ /\ Len(command_rx'[s]) > Len(command_rx[s])
                  /\ SubSeq(command_rx'[s], 1, Len(command_rx[s]))
                       = command_rx[s]
               \/ command_rx'[s] = Tail(command_rx[s])
               \/ command_rx'[s] = <<>>
         /\ Len(stdin'[s]) >= Len(stdin[s])
         /\ SubSeq(stdin'[s], 1, Len(stdin[s])) = stdin[s]
         /\ \A i \in DOMAIN Written(s) :
               Written(s)[i].method \in {"textDocument/didOpen",
                                         "textDocument/didChange"}
               => /\ command_rx[s] # <<>>
                  /\ command_rx'[s] = Tail(command_rx[s])
                  /\ Written(s)[i].method = MethodOf(Head(command_rx[s]).cmd)
                  /\ Written(s)[i].uri = Head(command_rx[s]).uri
                  /\ Len(Written(s)) = 1]_vars

\* A didOpen and a didChange were called and the task has taken both: the
\* two frames are on the wire, the didOpen first
C27_Witness ==
    \E s \in Sessions :
       \E i, j \in DOMAIN stdin[s] :
          /\ i < j
          /\ stdin[s][i].method = "textDocument/didOpen"
          /\ stdin[s][j].method = "textDocument/didChange"
          /\ command_rx[s] = <<>>
          /\ counters.calls >= 2

\* ----------------------------------------------------------------- C28
\* C28: every ledger entry is consumed, by the matching response or by a
\* transport failure, the failure to write the request frame included: an
\* entry in the ledger of a session is the entry of a request whose frame
\* is on the wire, and the ledger of a session that has ended is empty.
C28_LedgerEntriesAreConsumed ==
    \A s \in Sessions :
       /\ task[s].pc = "exited" => task[s].pending = {}
       /\ \A id \in task[s].pending :
             \E i \in DOMAIN stdin[s] :
                stdin[s][i].kind = "request" /\ stdin[s][i].id = id

\* ----------------------------------------------------------------- C29
\* The task of session s reads the body of a frame, and the body is a
\* response that carries an error object
ReadsErrorResponse(s) ==
    /\ ReadsResponse(s)
    /\ Head(stdout[s].buf).outcome = "error"

\* C29: a response with a JSON-RPC error object resolves the ledger entry
\* of its id, and only that one, with an error outcome; every other entry
\* stays, and the session keeps running: it stays initialized, in its
\* select loop with its queue and its child, pushes no error, and takes the
\* next command or frame.
C29_ErrorResolvesOnlyItsEntry ==
    [][\A s \in Sessions :
         ReadsErrorResponse(s) =>
            LET m == Head(stdout[s].buf)
                h == handle_message(ReaderReset(task[s]), m)
            IN /\ task'[s] = h.task
               /\ task'[s].pending = task[s].pending \ {m.id}
               /\ m.id \in task[s].pending
                    => h.resolved = <<[id |-> m.id, result |-> "Err"]>>
               /\ m.id \notin task[s].pending => h.resolved = <<>>
               /\ task'[s].initialized = task[s].initialized
               /\ task'[s].pc = "select"
               /\ process' = process
               /\ bridge' = bridge
               /\ (command_rx[s] # <<>>) => (ENABLED TaskRecvCommand(s))'
               /\ (stdout'[s].buf # <<>>) => (ENABLED TaskRead(s))']_vars

\* Two diagnostic requests (ids 1 and 2) were registered, the server
\* answered one of them with an error, and the session has read that
\* response whole: the entry of the other request is the one left
C29_Witness ==
    \E s \in Sessions :
       /\ counters.errors = 1
       /\ counters.tokens = 3
       /\ task[s].pc = "select"
       /\ task[s].initialized
       /\ task[s].next_id = 3
       /\ Cardinality(task[s].pending) = 1
       /\ stdout[s].buf = <<>>
       /\ stdout[s].wpos = "start"
       /\ ~task[s].body

\* ----------------------------------------------------------------- C30
\* The ids of the request frames on the wire of session s, in wire order
RequestIds(s) ==
    LET IsRequest(f) == f.kind = "request"
        reqs == SelectSeq(stdin[s], IsRequest)
    IN [i \in DOMAIN reqs |-> reqs[i].id]

\* C30: the request ids of a session start at 0 and go up by one with each
\* request: the counter of a session not yet started is 0, a step that
\* sends a request uses the counter's value as the id and leaves the
\* counter one higher, no other step moves the counter, adds a ledger
\* entry or writes a request; the ids on the wire strictly increase (none
\* is used twice), and every id on the wire or in the ledger is below the
\* next id.
C30_RequestIdsSequential ==
    /\ [](\A s \in Sessions :
            /\ task[s].pc = "unspawned" => task[s].next_id = 0
            /\ \A id \in task[s].pending : 0 <= id /\ id < task[s].next_id
            /\ \A i \in DOMAIN RequestIds(s) :
                  /\ 0 <= RequestIds(s)[i]
                  /\ RequestIds(s)[i] < task[s].next_id
                  /\ i > 1 => RequestIds(s)[i] > RequestIds(s)[i - 1])
    /\ [][\A s \in Sessions :
            LET new == {Written(s)[i].id :
                          i \in {j \in DOMAIN Written(s) :
                                   Written(s)[j].kind = "request"}}
            IN /\ task'[s].next_id \in {task[s].next_id, task[s].next_id + 1}
               /\ task'[s].pending \ task[s].pending \subseteq {task[s].next_id}
               /\ new \subseteq {task[s].next_id}
               /\ task'[s].next_id = task[s].next_id
                    => new = {} /\ task'[s].pending \subseteq task[s].pending]_vars

\* A second request was sent by the session: the shutdown request went out
\* under id 1 after the initialize request under id 0, and the next id is 2
C30_Witness ==
    \E s \in Sessions :
       /\ RequestIds(s) = <<0, 1>>
       /\ task[s].next_id = 2
       /\ task[s].pending = {1}
       /\ task[s].awaiting = 1

\* ----------------------------------------------------------------- C31
\* The LspError messages for a language among the bridge messages
ErrorsFor(b, language) ==
    Cardinality({i \in DOMAIN b : b[i] = LspError(language)})

\* C31: a failed read of a frame ends the session: the step pushes exactly
\* one LspError with the session's language and nothing else, the loop is
\* left, and from then on the session writes no frame, reads none, pushes
\* no further message and never runs again.
C31_ReadFailureIsFatal ==
    [][\A s \in Sessions :
         /\ (TaskRead(s)
             /\ read_message(task[s], stdout[s].buf, stdout[s].eof).err)
            => /\ task'[s].pc = "exited"
               /\ bridge' = Append(bridge, LspError(task[s].language))
               /\ stdin' = stdin
               /\ stdout'[s] = ClosedStdout
         /\ task[s].pc = "exited"
            => /\ task'[s] = task[s]
               /\ stdin'[s] = stdin[s]
               /\ stdout'[s] = stdout[s]
               /\ ErrorsFor(bridge', task[s].language)
                    = ErrorsFor(bridge, task[s].language)
               /\ ~ENABLED TaskRead(s)
               /\ ~ENABLED TaskRecvCommand(s)]_vars

\* All the server wrote is a Content-Length line without a number; the
\* session read it and ended: its one LspError is in the bridge
C31_Witness ==
    \E s \in Sessions :
       /\ counters.errors = 1
       /\ counters.tokens = 1
       /\ task[s].pc = "exited"
       /\ ErrorsFor(bridge, task[s].language) = 1
       /\ stdout[s] = ClosedStdout

\* ----------------------------------------------------------------- C32
\* The child of session s could not be started
SpawnFailed(s) == task[s].pc = "exited" /\ process[s] = "none"

\* C32: when the child cannot be started, the failing start pushes exactly
\* one LspError for the language and the task takes no step after it (it
\* pushes nothing more); the session is never in the registry; the
\* initialize call the manager makes on its handle does not hang (its send
\* or its wait for the reply can complete); and it returns an error, upon
\* which get_or_spawn returns no handle and leaves the registry alone.
C32_SpawnFailureIsReported ==
    /\ [](\A s \in Sessions :
            SpawnFailed(s) =>
               /\ \A l \in Langs : handles[l] # s
               /\ ~handle[s].initialized
               /\ (ed.sid = s /\ ed.pc \in {"init_send", "init_recv"})
                    => ENABLED (EdInitSend \/ EdInitRecv))
    /\ [][\A s \in Sessions :
            /\ (task[s].pc = "starting" /\ task'[s].pc = "exited")
                 => bridge' = Append(bridge, LspError(task[s].language))
            /\ (SpawnFailed(s) /\ ed.sid = s
                /\ ed.pc \in {"init_send", "init_recv"} /\ ed' # ed)
                 => /\ ed'.pc = "idle"
                    /\ ed'.ret = NoSession
                    /\ handles' = handles
                    /\ ~handle'[s].live
            /\ SpawnFailed(s)
                 => /\ task'[s] = task[s]
                    /\ ~ENABLED TaskSpawn(s)
                    /\ ~ENABLED TaskRead(s)
                    /\ ~ENABLED TaskRecvCommand(s)]_vars

\* The one spawn request made so far failed at the start of the child: the
\* manager answered with no handle, the registry is empty, the handle is
\* dropped and the one LspError of the language is in the bridge
C32_Witness ==
    /\ ed.pc = "idle"
    /\ ed.ret = NoSession
    /\ ed.sid # NoSession
    /\ SpawnFailed(ed.sid)
    /\ ~handle[ed.sid].live
    /\ \A l \in Langs : handles[l] = NoSession
    /\ bridge = <<LspError(task[ed.sid].language)>>

\* ----------------------------------------------------------------- C33
\* The task of session s reads the body of a frame whole: the frame at the
\* head of its stream, with its header read before it
ReadsBody(s) ==
    /\ task[s].pc = "select"
    /\ task[s].body
    /\ stdout[s].buf # <<>>
    /\ Head(stdout[s].buf).t = "body"
    /\ stdout'[s].buf = Tail(stdout[s].buf)
    /\ command_rx'[s] = command_rx[s]

\* C33: a publishDiagnostics notification with well-formed params that a
\* session reads puts exactly one LspDiagnostics message on the bridge,
\* with the uri of the notification (as the text of the parsed Url, which
\* is the text received when that is normalised) and its diagnostics list
\* as received, and changes nothing else: the task is as before (ready for
\* the next frame), nothing is written, and queue, child, handle and
\* registry stay as they are.
C33_DiagnosticsAreForwarded ==
    [][\A s \in Sessions :
         (/\ ReadsBody(s)
          /\ Head(stdout[s].buf).kind = "notification"
          /\ Head(stdout[s].buf).method = "textDocument/publishDiagnostics"
          /\ Head(stdout[s].buf).outcome = "ok")
         => LET m == Head(stdout[s].buf)
            IN /\ bridge' = Append(bridge, LspDiagnostics(UrlToString(m.uri),
                                                          m.diagnostics))
               /\ m.uri \in Paths => bridge'[Len(bridge')].uri = m.uri
               /\ task'[s] = ReaderReset(task[s])
               /\ \A o \in Sessions \ {s} : task'[o] = task[o]
               /\ stdin' = stdin
               /\ command_rx' = command_rx
               /\ process' = process
               /\ handle' = handle
               /\ handles' = handles]_vars

\* A session has read a notification for b.rs with two diagnostics, and
\* the bridge holds them
C33_Witness ==
    \E s \in Sessions :
       /\ task[s].pc = "select"
       /\ stdout[s].buf = <<>>
       /\ bridge = <<LspInitialized(task[s].language),
                     LspDiagnostics("b.rs", <<"d1", "d2">>)>>

\* ----------------------------------------------------------------- C34
\* What the client has no handling for: a request of the server, and a
\* notification other than publishDiagnostics
Ignored(m) ==
    \/ m.kind = "request"
    \/ m.kind = "notification" /\ m.method # "textDocument/publishDiagnostics"

\* C34: a window/showMessage, window/logMessage or unknown notification,
\* and a request of the server, read by a session, put nothing on the
\* bridge and nothing on the wire and leave the task as it was, with its
\* ledger, version table and initialized flag; the session is not ended by
\* it: it stays in its loop with its queue and child and takes the next
\* command or frame.
C34_UnhandledFramesAreIgnored ==
    [][\A s \in Sessions :
         (ReadsBody(s) /\ Ignored(Head(stdout[s].buf)))
         => /\ bridge' = bridge
            /\ stdin' = stdin
            /\ task'[s] = ReaderReset(task[s])
            /\ task'[s].pending = task[s].pending
            /\ task'[s].document_versions = task[s].document_versions
            /\ task'[s].initialized = task[s].initialized
            /\ task'[s].pc = "select"
            /\ process' = process
            /\ (command_rx[s] # <<>>) => (ENABLED TaskRecvCommand(s))'
            /\ (stdout'[s].buf # <<>>) => (ENABLED TaskRead(s))']_vars

\* All the server wrote is one frame the client ignores; the session has
\* read it whole (no command came in between) and nothing but the
\* LspInitialized of the start is on the bridge
C34_Witness ==
    /\ counters.ignored = 1
    /\ counters.tokens = 3
    /\ counters.calls = 0
    /\ \A s \in Sessions : stdout[s].buf = <<>> /\ stdout[s].wpos = "start"
    /\ \E s \in Sessions :
          /\ task[s].pc = "select"
          /\ task[s].initialized
          /\ ~task[s].body
          /\ task[s].content_length = "None"
          /\ bridge = <<LspInitialized(task[s].language)>>

\* ----------------------------------------------------------------- C35
\* What the editor caches for buffer b and its URI
CachedFor(e, b) ==
    [stored_diagnostics |-> b \in e.stored_diagnostics,
     diagnostic_result_ids |-> b \in e.diagnostic_result_ids,
     stored_folding_ranges |-> b \in e.stored_folding_ranges,
     folding_ranges_in_flight |-> b \in e.folding_ranges_in_flight,
     folding_ranges_debounce |-> b \in e.folding_ranges_debounce,
     pending_folding_range_requests |->
         {req \in e.pending_folding_range_requests : req.buffer_id = b}]

NothingCached ==
    [stored_diagnostics |-> FALSE, diagnostic_result_ids |-> FALSE,
     stored_folding_ranges |-> FALSE, folding_ranges_in_flight |-> FALSE,
     folding_ranges_debounce |-> FALSE, pending_folding_range_requests |-> {}]

\* C35: when disable_lsp_for_buffer has run for a buffer, the editor holds
\* no diagnostics, result id or folding ranges for the buffer's URI, no
\* folding-range request of the buffer in flight, debounced or pending,
\* and the buffer's lsp_opened_with is empty; what is cached for the other
\* buffers, and those buffers, are as before.
C35_DisableClearsCaches ==
    [][(ed.pc = "disable_mark" /\ ed'.pc = "idle")
       => /\ CachedFor(ed', ed.buf) = NothingCached
          /\ buffers'[ed.buf].lsp_opened_with = {}
          /\ buffers'[ed.buf].folding_ranges = {}
          /\ ~buffers'[ed.buf].lsp_enabled
          /\ \A o \in Paths \ {ed.buf} :
                /\ CachedFor(ed', o) = CachedFor(ed, o)
                /\ buffers'[o] = buffers[o]]_vars

\* LSP was just disabled for a.rs, for which diagnostics and folding
\* ranges had been stored; the diagnostics of b.rs are still there
C35_Witness ==
    /\ ed.pc = "idle"
    /\ ed.last = "disable"
    /\ ed.buf = "a.rs"
    /\ ed.next_lsp_request_id >= 2
    /\ CachedFor(ed, "a.rs") = NothingCached
    /\ "b.rs" \in ed.stored_diagnostics
    /\ counters.toggles = 1

\* ----------------------------------------------------------------- C36
\* C36: a frame written as "Content-Length: n", a blank line and the n
\* bytes of the JSON text is read back as the message that was written,
\* of the same kind, and the read consumes exactly the bytes of that
\* frame: every read returns the next written message and leaves the
\* frames behind it, whether or not the frame carries other header lines;
\* no read fails.
C36_FramingRoundTrips ==
    /\ [](/\ ed.last # "read_error"
          /\ Len(ed.frames_read) <= Len(ed.frames_written)
          /\ \A i \in 1..Len(ed.frames_read) :
                ed.frames_read[i] = ed.frames_written[i]
          /\ stdin[1] = <<>> => ed.frames_read = ed.frames_written)
    /\ [][ed'.frames_read # ed.frames_read
          => LET m == ed.frames_written[Len(ed'.frames_read)]
             IN /\ ed'.frames_read = Append(ed.frames_read, m)
                /\ \E f \in Frames(m) : stdin[1] = f \o stdin'[1]]_vars

\* Two frames were written and read back: a request whose method has a
\* two-byte character, in a frame with another header line, and a
\* response with neither result nor error
C36_Witness ==
    /\ Len(ed.frames_read) = 2
    /\ stdin[1] = <<>>
    /\ ed.frames_read[1] = JsonRpcRequest(1, <<"é">>, "None")
    /\ ed.frames_read[2] = JsonRpcResponse(0, "None", "None")

\* ----------------------------------------------------------------- C37
\* C37: has_messages only observes the channel: a call of it leaves the
\* pending messages and their order as they are, so that the next
\* try_recv_all returns all of them.
C37_HasMessagesOnlyObserves ==
    [][HasMessages => bridge' = bridge]_vars

\* ----------------------------------------------------------------- C38
\* The last of the didOpen and didClose of buffer b that went to session
\* s: in its queue if one is there, else on its wire
LastLifecycle(s, b) ==
    LET Q == { i \in DOMAIN command_rx[s] :
                 /\ command_rx[s][i].cmd \in {"DidOpen", "DidClose"}
                 /\ command_rx[s][i].uri = b }
        F == { i \in DOMAIN stdin[s] :
                 /\ stdin[s][i].method \in {"textDocument/didOpen",
                                            "textDocument/didClose"}
                 /\ stdin[s][i].uri = b }
    IN IF Q # {}
       THEN command_rx[s][CHOOSE i \in Q : \A j \in Q : j <= i].cmd
       ELSE IF F = {} THEN "None"
       ELSE IF stdin[s][CHOOSE i \in F : \A j \in F : j <= i].method
                  = "textDocument/didOpen"
       THEN "DidOpen"
       ELSE "DidClose"

TakesDocumentCommand(s) ==
    /\ task[s].pc = "select"
    /\ command_rx[s] # <<>>
    /\ Head(command_rx[s]).cmd \in {"DidOpen", "DidChange"}
    /\ command_rx'[s] = Tail(command_rx[s])

InitializeFails ==
    \/ ed.pc = "init_send" /\ ed'.pc = "idle"
    \/ ed.pc = "init_recv" /\ ed'.pc = "idle" /\ ed.reply # "ok"

\* get_or_spawn is called for language l, which is configured and enabled
\* and has no handle in the registry
SpawnRequest(l) ==
    /\ ed.pc = "idle"
    /\ ed' # ed
    /\ ed'.language = l
    /\ handles[l] = NoSession
    /\ config.lsp[l].present /\ config.lsp[l].enabled

\* C40: the registry holds a handle for a language only if the initialize
\* call on that handle returned Ok: an entry appears only in the step in
\* which initialize takes the reply Ok; when initialize fails nothing is
\* inserted, get_or_spawn returns None and the handle is dropped, its drop
\* sending Shutdown to the task if the task still has its receiver; and a
\* later get_or_spawn for the language spawns a new task with a new handle.
C40_RegistryHoldsInitializedHandles ==
    /\ [](\A l \in Langs :
            handles[l] # NoSession =>
               /\ handle[handles[l]].initialized
               /\ handle[handles[l]].live)
    /\ [][/\ \A l \in Langs :
               handles'[l] # handles[l]
                  => /\ ed.pc = "init_recv" /\ ed.reply = "ok"
                     /\ ed.language = l
                     /\ handles'[l] = ed.sid
          /\ InitializeFails
                => /\ handles' = handles
                   /\ ed'.ret = NoSession
                   /\ ~handle'[ed.sid].live
                   /\ command_rx' = IF SendOk(ed.sid)
                                    THEN Enqueue(command_rx, ed.sid, CmdShutdown)
                                    ELSE command_rx
          /\ \A l \in Langs :
               SpawnRequest(l)
                  => /\ ed'.pc = "init_send"
                     /\ task[ed'.sid].pc = "unspawned"
                     /\ task'[ed'.sid].pc = "starting"
                     /\ task'[ed'.sid].language = l
                     /\ handle'[ed'.sid] = [initialized |-> FALSE,
                                            live |-> TRUE]]_vars

\* The initialize of the first handle failed while its task was running
\* (the request could not be written): the handle was dropped and its
\* Shutdown is in the queue of the task, the registry is empty, and a
\* second get_or_spawn has spawned session 2 for the language
C40_Witness ==
    /\ ed.pc = "init_send"
    /\ ed.sid = 2
    /\ ed.language = "rust"
    /\ handles["rust"] = NoSession
    /\ ~handle[1].live
    /\ ~handle[1].initialized
    /\ task[1].pc = "select"
    /\ task[1].pending = {0}
    /\ command_rx[1] = <<CmdShutdown>>
    /\ task[2].pc = "starting"
    /\ handle[2].live
====
